---- MODULE Spec2Model ----
(***************************************************************************)
(* Tab-recording extension: the background service worker's recording      *)
(* state machine (src/background.js) and the offscreen capture pipeline    *)
(* with its dual encoders, chunk accumulator and stream teardown           *)
(* (src/offscreen.js, the audio-split revision, lines 904-1620).           *)
(*                                                                         *)
(* Scheduling: both contexts are single-threaded event loops.  A handler   *)
(* runs atomically up to its next await; every await that waits for the    *)
(* platform is a suspension point and gets its own action.  Messages       *)
(* between the background and the offscreen document travel on one FIFO    *)
(* channel per direction; inside the offscreen document the tasks of       *)
(* different sources (messages, encoder events, track events, promise      *)
(* settlements) interleave freely.                                         *)
(*                                                                         *)
(* Sizes are counted in MiB (the source counts bytes), times in             *)
(* milliseconds with 0 standing for null (Date.now() is never 0, and null  *)
(* coerces to 0 in the source's subtraction); durations are whole seconds. *)
(***************************************************************************)
EXTENDS Integers, Sequences, FiniteSets, TLC

\* ---------------------------------------------------------------- bounds
MaxStarts == 2
MaxStops == 1
StopSlots == 2
MaxCloses == 1
MaxChunks == 2
MaxFaults == 1
MaxClock == 3000
MaxTimers == 3
MaxScheduling == 2
MaxRefreshing == 1

\* ------------------------------------------------------ program constants
maxChunkSize == 50
MemoryWarningSize == 100

\* size of every chunk an encoder emits
ChunkMB == 30

\* the time that passes in one step of the clock
TickMs == 1000

Sessions == 1..MaxStarts
Tabs == {1, 2}

\* RecordingOptions; tabId 0 is a missing tabId
Options == { [recordingType |-> "tab", tabId |-> 1, includeDeviceAudio |-> TRUE, includeMicrophone |-> FALSE],
             [recordingType |-> "tab", tabId |-> 1, includeDeviceAudio |-> TRUE, includeMicrophone |-> TRUE],
             [recordingType |-> "tab", tabId |-> 0, includeDeviceAudio |-> TRUE, includeMicrophone |-> FALSE] }
NoOptions == [recordingType |-> "null", tabId |-> 0, includeDeviceAudio |-> FALSE, includeMicrophone |-> FALSE]

\* a MediaStream reference: null, or a set of tracks <<session, kind>>
NullStream == [null |-> TRUE, tracks |-> {}]
MediaStream(ts) == [null |-> FALSE, tracks |-> ts]

\* a Blob is the sequence of the chunks it was built from
RECURSIVE Blob(_)
\* the set of the chunks of a sequence of chunks
Chunks(b) == {b[i] : i \in DOMAIN b}

Blob(parts) == IF parts = <<>> THEN <<>> ELSE Head(parts) \o Blob(Tail(parts))

\* Blob.size: the sum of the sizes of its chunks (summed by halves)
RECURSIVE BlobSize(_)
BlobSize(b) ==
  IF b = <<>> THEN 0
  ELSE IF Len(b) = 1 THEN b[1].size
  ELSE BlobSize(SubSeq(b, 1, Len(b) \div 2)) + BlobSize(SubSeq(b, (Len(b) \div 2) + 1, Len(b)))

\* recordingData values: null, undefined, or the artifact of handleRecordingStop
NullData == [kind |-> "null", url |-> <<>>, size |-> 0, duration |-> 0,
             hasAudio |-> FALSE, audioUrl |-> <<>>, audioSize |-> 0]
UndefinedData == [NullData EXCEPT !.kind = "undefined"]

VARIABLES
  recordingState,  \* background: the shared RecordingState
  badge,           \* background: badge text
  broadcast,       \* background: the recordingStateChanged sent by the last step, if any
  reply,           \* background: the sendResponse of the last step, if any
  startReq,        \* background: handleStartRecording invocations
  stopReq,         \* background: handleStopRecording invocations
  closeReq,        \* background: handleTabClosing invocations
  currentRecordingOptions, \* background: the key of that name in chrome.storage.session
  micFailedReq,    \* background: the pending reads of handleMicrophoneAccessFailed, in order
  toOff,           \* messages background -> offscreen
  toBg,            \* messages and responses offscreen -> background
  off,             \* offscreen: fields of the MeetRecorderOffscreen instance
  offStart,        \* offscreen: startTabRecording invocations (one per session)
  rec,             \* offscreen: state of each session's two MediaRecorders
  pend,            \* offscreen: the queued stop tasks of encoders, in order
  live,            \* offscreen: tracks that are live
  ctx,             \* offscreen: state of each session's AudioContext
  listener,        \* offscreen: tracks that have the 'ended' listener
  auth,            \* background: stored tokens and the token-refresh timers
  supportedTypes,  \* platform: the types MediaRecorder.isTypeSupported accepts
  hist,            \* history: what each session sent and what was delivered
  clock            \* Date.now()

vars == <<recordingState, badge, broadcast, reply, startReq, stopReq, closeReq,
          currentRecordingOptions, micFailedReq, toOff, toBg,
          off, offStart, rec, pend, live, ctx, listener, supportedTypes, hist, clock, auth>>

sessionVars == <<currentRecordingOptions, micFailedReq>>
bgVars == <<recordingState, badge, startReq, stopReq, closeReq, currentRecordingOptions, micFailedReq, auth>>
recorderVars == <<recordingState, badge, broadcast, reply, startReq, stopReq, closeReq,
                  currentRecordingOptions, micFailedReq, toOff, toBg, hist, clock>>
offVars == <<off, offStart, rec, pend, live, ctx, listener, supportedTypes>>

\* ------------------------------------------------------------ background
InitialRecordingState ==
  [isRecording |-> FALSE, isPaused |-> FALSE, recordingType |-> "null",
   currentTabId |-> 0, recordingStartTime |-> 0, recordingData |-> NullData]

\* resetRecordingState without the recordingData it keeps
resetRecordingStateClearsData(rs) == InitialRecordingState

resetRecordingState(rs) ==
  [InitialRecordingState EXCEPT !.recordingData = rs.recordingData]

\* ------------------------------------------------------------- offscreen
InitialOffscreen ==
  [mediaRecorder |-> 0, audioRecorder |-> 0,
   recordedChunks |-> <<>>, audioChunks |-> <<>>,
   chunkBlobs |-> <<>>, audioChunkBlobs |-> <<>>,
   currentChunkSize |-> 0, audioChunkSize |-> 0,
   currentStream |-> NullStream, audioOnlyStream |-> NullStream,
   originalTabStream |-> NullStream, micStream |-> NullStream,
   audioContext |-> 0, destination |-> 0,
   isRecording |-> FALSE, isPaused |-> FALSE,
   recordingStartTime |-> 0, totalPausedTime |-> 0, lastPauseTime |-> 0,
   mimeType |-> "none", audioMimeType |-> "none"]

InitialHistory ==
  [startTabSent |-> [s \in Sessions |-> 0],
   startedAt |-> [s \in Sessions |-> 0],
   startsBeforeClose |-> {},
   startFailed |-> {},
   graph |-> {},
   complete |-> [s \in Sessions |-> 0],
   error |-> [s \in Sessions |-> 0],
   errored |-> {}, ended |-> {},
   final |-> [built |-> FALSE, video |-> <<>>, audio |-> <<>>],
   allStreamsReleased |-> 0, microphoneAccessFailed |-> {},
   video |-> <<>>, audio |-> <<>>,
   emitted |-> [s \in Sessions |-> [video |-> 0, audio |-> 0]],
   nChunks |-> 0, nFaults |-> 0]

\* The offscreen handlers are composed as functions on a world record w that
\* holds everything a handler can touch; out collects the messages it sends.
\* hist.allStreamsReleased counts the allStreamsReleased messages of one step.
World ==
  [off |-> off, rec |-> rec, pend |-> pend, live |-> live, ctx |-> ctx,
   hist |-> [hist EXCEPT !.allStreamsReleased = 0], out |-> <<>>, result |-> FALSE]

Msg(action, to, id, success, data) ==
  [action |-> action, to |-> to, id |-> id, success |-> success, recordingData |-> data]

\* chrome.runtime.sendMessage of a notification; id names the session it is
\* about (history only: the source's messages carry no session)
Notify(w, action, id, data) ==
  [w EXCEPT !.out = Append(@, Msg(action, "none", id, TRUE, data))]

\* MaxFaults bounds the failures the platform injects in one behaviour: refused
\* or failing platform calls, encoder errors, revoked captures, closed tabs
CanFail == hist.nFaults < MaxFaults
Fault(w) == [w EXCEPT !.hist.nFaults = @ + 1]

\* ---- ChunkedBlobAccumulator
createVideoChunkBlob(w) ==
  IF Len(w.off.recordedChunks) > 0
  THEN [w EXCEPT !.off.chunkBlobs = Append(@, Blob(w.off.recordedChunks)),
                 !.off.recordedChunks = <<>>,
                 !.off.currentChunkSize = 0]
  ELSE w

createAudioChunkBlob(w) ==
  IF Len(w.off.audioChunks) > 0
  THEN [w EXCEPT !.off.audioChunkBlobs = Append(@, Blob(w.off.audioChunks)),
                 !.off.audioChunks = <<>>,
                 !.off.audioChunkSize = 0]
  ELSE w

notifyMemoryWarning(w) == Notify(w, "memoryWarning", 0, NullData)

\* handleVideoDataAvailable flushing only above the threshold
handleVideoDataAvailableAbove(w, data) ==
  LET w1 == [w EXCEPT !.off.recordedChunks = Append(@, data),
                      !.off.currentChunkSize = @ + BlobSize(data),
                      !.hist.video = @ \o data]
      w2 == IF w1.off.currentChunkSize > maxChunkSize THEN createVideoChunkBlob(w1) ELSE w1
  IN IF w2.off.currentChunkSize > MemoryWarningSize THEN notifyMemoryWarning(w2) ELSE w2

handleVideoDataAvailable(w, data) ==
  LET w1 == [w EXCEPT !.off.recordedChunks = Append(@, data),
                      !.off.currentChunkSize = @ + BlobSize(data),
                      !.hist.video = @ \o data]
      w2 == IF w1.off.currentChunkSize >= maxChunkSize THEN createVideoChunkBlob(w1) ELSE w1
  IN IF w2.off.currentChunkSize > MemoryWarningSize THEN notifyMemoryWarning(w2) ELSE w2

handleAudioDataAvailable(w, data) ==
  LET w1 == [w EXCEPT !.off.audioChunks = Append(@, data),
                      !.off.audioChunkSize = @ + BlobSize(data),
                      !.hist.audio = @ \o data]
  IN IF w1.off.audioChunkSize >= maxChunkSize THEN createAudioChunkBlob(w1) ELSE w1

\* ondataavailable of either encoder: empty data is dropped
ondataavailable(w, k, data) ==
  IF BlobSize(data) > 0
  THEN IF k = "video" THEN handleVideoDataAvailable(w, data)
                      ELSE handleAudioDataAvailable(w, data)
  ELSE w

\* ---- StreamTeardown
stopAllTracks(w, stream) ==
  IF stream.null THEN w ELSE [w EXCEPT !.live = @ \ stream.tracks]

\* MediaRecorder.stop() on a recording encoder: the state becomes inactive at
\* once, the final dataavailable and the stop event are fired by a queued task
RecorderStop(w, s, k) ==
  [w EXCEPT !.rec[s][k] = "inactive", !.pend = Append(@, <<s, k>>)]

\* steps 5-8 of releaseAllStreams: what runs after the audio context closed.
\* The background only logs allStreamsReleased (background.js:593), so the
\* message is counted in the history instead of being queued.
releaseAllStreamsTail(w) ==
  [w EXCEPT !.off.currentStream = NullStream,
            !.off.audioOnlyStream = NullStream,
            !.off.originalTabStream = NullStream,
            !.off.micStream = NullStream,
            !.off.destination = 0,
            !.hist.allStreamsReleased = @ + 1]

\* releaseAllStreams up to its first suspension (await audioContext.close()),
\* or to its end when there is no open audio context to wait for
releaseAllStreams(w) ==
  LET v == w.off.mediaRecorder
      w1 == IF v # 0 /\ w.rec[v].video # "inactive"
            THEN [RecorderStop(w, v, "video") EXCEPT !.off.mediaRecorder = 0]
            ELSE w
      a == w1.off.audioRecorder
      w2 == IF a # 0 /\ w1.rec[a].audio # "inactive"
            THEN [RecorderStop(w1, a, "audio") EXCEPT !.off.audioRecorder = 0]
            ELSE w1
      w3 == stopAllTracks(stopAllTracks(stopAllTracks(stopAllTracks(w2,
              w2.off.currentStream), w2.off.audioOnlyStream),
              w2.off.originalTabStream), w2.off.micStream)
      w4 == IF w3.off.destination # 0
            THEN [w3 EXCEPT !.live = @ \ {<<w3.off.destination, "dest">>}]
            ELSE w3
      c == w4.off.audioContext
  IN IF c # 0
     THEN LET w5 == [w4 EXCEPT !.off.audioContext = 0, !.off.destination = 0]
          IN IF w5.ctx[c] # "closed"
             THEN [w5 EXCEPT !.ctx[c] = "closing"]
             ELSE releaseAllStreamsTail(w5)
     ELSE releaseAllStreamsTail(w4)

cleanup(w) ==
  [releaseAllStreams(w) EXCEPT !.off.isRecording = FALSE,
                               !.off.isPaused = FALSE,
                               !.off.recordingStartTime = 0,
                               !.off.totalPausedTime = 0,
                               !.off.lastPauseTime = 0,
                               !.off.recordedChunks = <<>>,
                               !.off.audioChunks = <<>>,
                               !.off.currentChunkSize = 0,
                               !.off.audioChunkSize = 0]

notifyError(w, s) ==
  Notify([w EXCEPT !.hist.error[s] = @ + 1], "recordingError", s, NullData)

\* onstop of session s's combined encoder
handleRecordingStop(w, s) ==
  LET w1 == createAudioChunkBlob(createVideoChunkBlob(w))
      hasVideo == w1.off.chunkBlobs # <<>> \/ w1.off.recordedChunks # <<>>
      finalVideoBlob == IF w1.off.chunkBlobs # <<>> THEN Blob(w1.off.chunkBlobs)
                        ELSE Blob(w1.off.recordedChunks)
      hasAudio == w1.off.audioChunkBlobs # <<>> \/ w1.off.audioChunks # <<>>
      finalAudioBlob == IF w1.off.audioChunkBlobs # <<>> THEN Blob(w1.off.audioChunkBlobs)
                        ELSE Blob(w1.off.audioChunks)
      recordingData ==
        [kind |-> "artifact",
         url |-> finalVideoBlob, size |-> BlobSize(finalVideoBlob),
         duration |-> (clock - w1.off.recordingStartTime - w1.off.totalPausedTime) \div 1000,
         hasAudio |-> hasAudio,
         audioUrl |-> finalAudioBlob, audioSize |-> BlobSize(finalAudioBlob)]
  IN IF hasVideo
     THEN cleanup(Notify([w1 EXCEPT !.hist.complete[s] = @ + 1,
                                    !.hist.final = [built |-> TRUE,
                                                    video |-> finalVideoBlob,
                                                    audio |-> finalAudioBlob]],
                         "recordingComplete", s, recordingData))
     ELSE cleanup(notifyError(w1, s))

\* stopRecording(); strict says whether stop() on an inactive MediaRecorder
\* throws InvalidStateError (older engines) or is ignored (current standard)
stopRecording(w, strict) ==
  IF ~w.off.isRecording \/ w.off.mediaRecorder = 0 \/ w.off.audioRecorder = 0
  THEN [w EXCEPT !.result = FALSE]
  ELSE
    LET w0 == IF w.off.isPaused /\ w.off.lastPauseTime # 0
              THEN [w EXCEPT !.off.totalPausedTime = @ + (clock - w.off.lastPauseTime)]
              ELSE w
        v == w0.off.mediaRecorder
        a == w0.off.audioRecorder
        vThrows == strict /\ w0.rec[v].video # "recording"
        w1 == IF w0.rec[v].video = "recording" THEN RecorderStop(w0, v, "video") ELSE w0
        aThrows == strict /\ w1.rec[a].audio # "recording"
        w2 == IF w1.rec[a].audio = "recording" THEN RecorderStop(w1, a, "audio") ELSE w1
    IN IF vThrows THEN [cleanup(w0) EXCEPT !.result = FALSE]
       ELSE IF aThrows THEN [cleanup(w1) EXCEPT !.result = FALSE]
       ELSE [releaseAllStreams(w2) EXCEPT !.result = TRUE]
\* ---- audio graph
\* hist.graph holds the connections made so far, <<context, from, to>>;
\* "destination" is the context's MediaStreamDestination (the mix) and
\* "speakers" is audioContext.destination
connect(w, c, from, to) == [w EXCEPT !.hist.graph = @ \cup {<<c, from, to>>}]

\* the tab audio with passthrough, in context c
connectTabAudio(w, c) ==
  connect(connect(connect(connect(w,
    c, "tabAudioSource", "recordingGain"),
    c, "tabAudioSource", "passthroughGain"),
    c, "recordingGain", "destination"),
    c, "passthroughGain", "speakers")

\* connectMicrophone with the microphone also sent to the speakers
connectMicrophoneWithPassthrough(w, c) ==
  connect(connect(connect(w,
    c, "micAudioSource", "micGain"),
    c, "micGain", "destination"),
    c, "micGain", "speakers")

\* the microphone, in context c; connecting to a nulled destination throws
\* after the first connection was made
connectMicrophone(w, c) ==
  IF w.off.destination # 0
  THEN connect(connect(w, c, "micAudioSource", "micGain"), c, "micGain", "destination")
  ELSE connect(w, c, "micAudioSource", "micGain")

\* ---- encoder mime types
VideoTypes == <<"video/webm;codecs=vp9,opus", "video/webm;codecs=vp8,opus",
                "video/webm;codecs=h264,opus", "video/webm", "video/mp4">>
AudioTypes == <<"audio/webm;codecs=opus", "audio/webm", "audio/ogg;codecs=opus",
                "audio/mp4", "audio/wav">>
MimeTypes == {VideoTypes[i] : i \in DOMAIN VideoTypes} \cup {AudioTypes[i] : i \in DOMAIN AudioTypes}

\* the for loop of getSupportedMimeType and getSupportedAudioMimeType: the
\* first entry of types, from index i on, that the runtime supports
RECURSIVE FirstSupported(_, _, _, _)
FirstSupported(types, i, supported, default) ==
  IF i > Len(types) THEN default
  ELSE IF types[i] \in supported THEN types[i]
  ELSE FirstSupported(types, i + 1, supported, default)

\* getSupportedMimeType returning the last supported entry
getSupportedMimeTypeLast(supported) ==
  IF \E i \in DOMAIN VideoTypes : VideoTypes[i] \in supported
  THEN VideoTypes[CHOOSE i \in DOMAIN VideoTypes :
                    /\ VideoTypes[i] \in supported
                    /\ \A h \in DOMAIN VideoTypes : VideoTypes[h] \in supported => h <= i]
  ELSE "video/webm"

getSupportedMimeType(supported) == FirstSupported(VideoTypes, 1, supported, "video/webm")

getSupportedAudioMimeType(supported) == FirstSupported(AudioTypes, 1, supported, "audio/webm")

\* ---- DualRecorder start
EncOutcomes == {"ok", "ctorFail", "startFail"}

\* initializeMediaRecorders and the rest of startTabRecording: "ctorFail" is the
\* audio-only MediaRecorder's constructor throwing, "startFail" its start()
\* throwing after the combined encoder was started
finishStart(w, s, combinedStream, audioOnlyStream, enc) ==
  LET w0 == [w EXCEPT !.off.currentStream = combinedStream,
                      !.off.audioOnlyStream = audioOnlyStream,
                      !.off.mimeType = getSupportedMimeType(supportedTypes),
                      !.off.audioMimeType = getSupportedAudioMimeType(supportedTypes)]
      w1 == [w0 EXCEPT !.off.mediaRecorder = s,
                       !.rec[s].video = "inactive"]
  IN CASE w0.off.mimeType \notin supportedTypes -> [cleanup(w0) EXCEPT !.result = FALSE]
       [] w0.off.audioMimeType \notin supportedTypes -> [cleanup(w1) EXCEPT !.result = FALSE]
       [] enc = "ctorFail" -> [cleanup(w1) EXCEPT !.result = FALSE]
       [] enc = "startFail" ->
            [cleanup([w1 EXCEPT !.off.audioRecorder = s,
                                !.rec[s].video = "recording",
                                !.rec[s].audio = "inactive"])
             EXCEPT !.result = FALSE]
       [] OTHER ->
            [w1 EXCEPT !.off.audioRecorder = s,
                       !.rec[s].video = "recording",
                       !.rec[s].audio = "recording",
                       !.off.isRecording = TRUE,
                       !.off.isPaused = FALSE,
                       !.result = TRUE]

Respond(w, to, id) ==
  [w EXCEPT !.out = Append(@, Msg("response", to, id, w.result, UndefinedData))]

\* the reply of startTabRecording; the history keeps the sessions whose start
\* was answered with a failure
RespondStart(w, s) ==
  Respond([w EXCEPT !.hist.startFailed = IF w.result THEN @ ELSE @ \cup {s}], "start", s)

Commit(w) ==
  /\ off' = w.off
  /\ UNCHANGED supportedTypes
  /\ rec' = w.rec
  /\ pend' = w.pend
  /\ live' = w.live
  /\ ctx' = w.ctx
  /\ hist' = w.hist
  /\ toBg' = toBg \o w.out

Range(q) == {q[i] : i \in DOMAIN q}

VideoTracks(stream) == {t \in stream.tracks : t[2] = "video"}

\* ------------------------------------------------------------------ Init
NoReply == [to |-> "none", id |-> 0, success |-> FALSE, error |-> "none",
            recordingData |-> NullData]
NoBroadcast == [sent |-> FALSE, state |-> InitialRecordingState]

\* a step of the offscreen document sends nothing to the UI surfaces
Silent == reply' = NoReply /\ broadcast' = NoBroadcast

\* ---- token refresh
MAX_REFRESH_RETRIES == 3

\* what the refresh scheduling sees in chrome.storage.local: no tokens, an
\* auth token that does not decode or has no exp, a token that expires within
\* two minutes (refreshTime <= 0), or a token that expires later
StoredTokens == {"none", "garbage", "soon", "valid"}

\* refreshTimeout is 0 for null, else the id of the last timer armed; timers
\* are the timers armed and neither fired nor cancelled; scheduling counts the
\* scheduleTokenRefresh calls that wait for their storage read, refreshing the
\* refreshAuthToken calls in flight; last names the handler that ran last
InitialAuth ==
  [store |-> "none", refreshTimeout |-> 0, timers |-> {}, armed |-> 0,
   scheduling |-> 0, refreshing |-> 0, refreshRetryCount |-> 0, last |-> "none"]

\* the types a current Chrome supports
ChromeTypes == {"video/webm;codecs=vp9,opus", "video/webm;codecs=vp8,opus",
                "video/webm;codecs=h264,opus", "video/webm", "video/mp4",
                "audio/webm;codecs=opus", "audio/webm", "audio/mp4"}

InitRuntime(supported) ==
  /\ supportedTypes = supported
  /\ auth = InitialAuth
  /\ recordingState = InitialRecordingState
  /\ badge = ""
  /\ broadcast = NoBroadcast
  /\ reply = NoReply
  /\ startReq = [i \in Sessions |-> [pc |-> "idle", options |-> NoOptions, data |-> NullData]]
  /\ stopReq = [j \in 1..StopSlots |-> "idle"]
  /\ closeReq = [k \in 1..MaxCloses |-> "idle"]
  /\ currentRecordingOptions = NoOptions
  /\ micFailedReq = <<>>
  /\ toOff = <<>>
  /\ toBg = <<>>
  /\ off = InitialOffscreen
  /\ offStart = [s \in Sessions |-> [pc |-> "none", options |-> NoOptions]]
  /\ rec = [s \in Sessions |-> [video |-> "none", audio |-> "none"]]
  /\ pend = <<>>
  /\ live = {}
  /\ ctx = [s \in Sessions |-> "none"]
  /\ listener = {}
  /\ hist = InitialHistory
  /\ clock = TickMs

Init == InitRuntime(ChromeTypes)

\* ----------------------------------------------------- background actions
sendResponse(to, id, success, error, data) ==
  reply' = [to |-> to, id |-> id, success |-> success, error |-> error,
            recordingData |-> data]

notifyPopupStateChange == broadcast' = [sent |-> TRUE, state |-> recordingState']

\* A handler invocation that ended without sending anything to the offscreen
\* document frees its slot: MaxStarts, MaxStops and MaxCloses bound the
\* messages sent to the offscreen document, not the requests received.
\* data is the recordingData held when the request was received (history).
Idle == [pc |-> "idle", options |-> NoOptions, data |-> NullData]
Done == [pc |-> "done", options |-> NoOptions, data |-> NullData]

\* handleStartRecording without the isRecording test of its first lines
handleStartRecordingUnguarded(i, options) ==
  /\ i \in Sessions
  /\ startReq[i].pc = "idle"
  /\ \A h \in 1..(i - 1) : startReq[h].pc # "idle"
  /\ startReq' = [startReq EXCEPT ![i] = [pc |-> "auth", options |-> options,
                                                  data |-> recordingState.recordingData]]
  /\ reply' = NoReply
  /\ broadcast' = NoBroadcast
  /\ UNCHANGED <<recordingState, badge, stopReq, closeReq, toOff, toBg, hist, clock>>
  /\ UNCHANGED offVars
  /\ UNCHANGED auth
  /\ UNCHANGED sessionVars

\* handleStartRecording up to the await of the authentication check
handleStartRecording(i, options) ==
  /\ IF recordingState.isRecording
     THEN /\ i = 0
          /\ sendResponse("start", i, FALSE, "AlreadyRecording", NullData)
          /\ UNCHANGED startReq
     ELSE /\ i \in Sessions
          /\ startReq[i].pc = "idle"
          /\ \A h \in 1..(i - 1) : startReq[h].pc # "idle"
          /\ startReq' = [startReq EXCEPT ![i] = [pc |-> "auth", options |-> options,
                                                  data |-> recordingState.recordingData]]
          /\ reply' = NoReply
  /\ broadcast' = NoBroadcast
  /\ UNCHANGED <<recordingState, badge, stopReq, closeReq, toOff, toBg, hist, clock>>
  /\ UNCHANGED offVars
  /\ UNCHANGED auth
  /\ UNCHANGED sessionVars

\* ---- token refresh: handlers
\* clearTimeout(refreshTimeout) when refreshTimeout is not null
clearTimeout(a) ==
  IF a.refreshTimeout # 0 THEN [a EXCEPT !.timers = @ \ {a.refreshTimeout}] ELSE a

\* scheduleTokenRefresh up to the storage read
scheduleTokenRefresh(a) == [clearTimeout(a) EXCEPT !.scheduling = @ + 1]

clearTokensAndRedirect(a) == [a EXCEPT !.store = "none"]

\* the body shared by the immediate refresh and the timer's callback
refreshOrGiveUp(a) ==
  IF a.refreshRetryCount >= MAX_REFRESH_RETRIES
  THEN clearTokensAndRedirect(a)
  ELSE [a EXCEPT !.refreshing = @ + 1]

AuthStep(a, name) ==
  /\ auth' = [a EXCEPT !.last = name]
  /\ UNCHANGED recorderVars
  /\ UNCHANGED offVars

\* chrome.runtime.onInstalled and onStartup
onInstalled ==
  /\ auth.scheduling < MaxScheduling
  /\ AuthStep(scheduleTokenRefresh(auth), "onInstalled")

\* handleVerifyOTP with a successful verification: the tokens are stored,
\* scheduleTokenRefresh is called, then handleAuthEvent("loginSuccess")
handleVerifyOTP(tokens) ==
  /\ auth.scheduling + 2 <= MaxScheduling
  /\ AuthStep(scheduleTokenRefresh(scheduleTokenRefresh([auth EXCEPT !.store = tokens])),
              "loginSuccess")

\* the popup removes the tokens from storage (logout)
TokensRemoved ==
  /\ auth.store # "none"
  /\ AuthStep([auth EXCEPT !.store = "none"], "remove")

handleAuthEvent(eventType) ==
  CASE eventType \in {"tokensUpdated", "loginSuccess"} ->
         /\ auth.scheduling < MaxScheduling
         /\ AuthStep(scheduleTokenRefresh(auth), eventType)
    [] eventType \in {"tokensCleared", "logoutComplete"} ->
         AuthStep([clearTimeout(auth) EXCEPT !.refreshTimeout = 0, !.refreshRetryCount = 0],
                  eventType)

\* the storage read of a scheduleTokenRefresh call answers
scheduleTokenRefreshRead ==
  /\ auth.scheduling > 0
  /\ LET a == [auth EXCEPT !.scheduling = @ - 1]
     IN CASE a.store = "none" -> AuthStep(a, "read")
          [] a.store = "garbage" -> AuthStep(clearTokensAndRedirect(a), "read")
          [] a.store = "soon" ->
               /\ a.refreshRetryCount < MAX_REFRESH_RETRIES => a.refreshing < MaxRefreshing
               /\ AuthStep(refreshOrGiveUp(a), "read")
          [] a.store = "valid" ->
               /\ a.armed < MaxTimers
               /\ AuthStep([a EXCEPT !.armed = @ + 1,
                                     !.timers = @ \cup {a.armed + 1},
                                     !.refreshTimeout = a.armed + 1], "read")

\* a pending timer fires
TimerFires(id) ==
  /\ id \in auth.timers
  /\ LET a == [auth EXCEPT !.timers = @ \ {id}]
     IN /\ a.refreshRetryCount < MAX_REFRESH_RETRIES => a.refreshing < MaxRefreshing
        /\ AuthStep(refreshOrGiveUp(a), "timer")

\* refreshAuthToken settles: new tokens are stored and the next refresh is
\* scheduled, or the retry count goes up and the tokens are cleared
RefreshSettles(ok, tokens) ==
  /\ auth.refreshing > 0
  /\ LET a == [auth EXCEPT !.refreshing = @ - 1]
     IN IF ok
        THEN /\ a.scheduling < MaxScheduling
             /\ AuthStep(scheduleTokenRefresh([a EXCEPT !.store = tokens,
                                                        !.refreshRetryCount = 0]), "refreshed")
        ELSE /\ tokens = "valid"
             /\ AuthStep(clearTokensAndRedirect([a EXCEPT !.refreshRetryCount = @ + 1]),
                         "refreshFailed")

\* Date.now() is Epoch + clock: the time, in milliseconds, at which the model starts
Epoch == 10000

\* what chrome.storage.local holds: whether the read succeeds, the auth token
\* (absent, not a JWT, a JWT whose payload has no exp, or a JWT with exp in
\* seconds) and whether a refresh token is stored
AuthStores == [get : BOOLEAN, auth_token : {"absent", "garbage", "noExp", "jwt"},
               exp : {0, 5, 20}, refresh_token : BOOLEAN]

\* parseJwt: null for a token that does not decode, else the payload
parseJwt(store) ==
  CASE store.auth_token = "garbage" -> [null |-> TRUE, exp |-> 0]
    [] store.auth_token = "noExp" -> [null |-> FALSE, exp |-> 0]
    [] OTHER -> [null |-> FALSE, exp |-> store.exp]

\* handleCheckAuthentication without the expiry test
handleCheckAuthenticationIgnoringExpiry(store, now) ==
  IF ~store.get THEN FALSE
  ELSE IF store.auth_token = "absent" \/ ~store.refresh_token THEN FALSE
  ELSE IF parseJwt(store).null \/ parseJwt(store).exp = 0 THEN FALSE
  ELSE TRUE

\* handleCheckAuthentication: the isAuthenticated of its answer; now is
\* Date.now() in milliseconds, exp is in seconds
handleCheckAuthentication(store, now) ==
  IF ~store.get THEN FALSE
  ELSE IF store.auth_token = "absent" \/ ~store.refresh_token THEN FALSE
  ELSE IF parseJwt(store).null \/ parseJwt(store).exp = 0 THEN FALSE
  ELSE IF parseJwt(store).exp * 1000 < now THEN FALSE
  ELSE TRUE

\* handleStartRecording from the authentication check to the first await after
\* the checks: the platform calls made, in order, and the outcome
handleStartRecordingSteps(store, options, now, created) ==
  IF ~handleCheckAuthentication(store, now)
  THEN [calls |-> <<"storage.local.get">>, outcome |-> "AuthRequired"]
  ELSE IF options.tabId = 0
  THEN [calls |-> <<"storage.local.get">>, outcome |-> "NoTab"]
  ELSE IF ~created
  THEN [calls |-> <<"storage.local.get", "createOffscreenDocument">>,
        outcome |-> "RecordingFailed"]
  ELSE [calls |-> <<"storage.local.get", "createOffscreenDocument", "storage.session.set">>,
        outcome |-> "checked"]

\* ... the authentication check answered; then the tabId check and the await
\* of createOffscreenDocument, after which recordingState is replaced
handleStartRecordingChecked(i, isAuthenticated, created) ==
  /\ startReq[i].pc = "auth"
  /\ \E store \in AuthStores :
       /\ handleCheckAuthentication(store, Epoch + clock) = isAuthenticated
       /\ handleStartRecordingSteps(store, startReq[i].options, Epoch + clock, created).outcome =
            IF ~isAuthenticated THEN "AuthRequired"
            ELSE IF startReq[i].options.tabId = 0 THEN "NoTab"
            ELSE IF ~created THEN "RecordingFailed" ELSE "checked"
  /\ IF ~isAuthenticated
     THEN /\ sendResponse("start", i, FALSE, "AuthRequired", NullData)
          /\ startReq' = [startReq EXCEPT ![i] = Idle]
          /\ UNCHANGED <<recordingState, hist, currentRecordingOptions>>
     ELSE IF startReq[i].options.tabId = 0
     THEN /\ sendResponse("start", i, FALSE, "NoTab", NullData)
          /\ startReq' = [startReq EXCEPT ![i] = Idle]
          /\ UNCHANGED <<recordingState, hist, currentRecordingOptions>>
     ELSE IF ~created
     THEN /\ CanFail
          /\ hist' = Fault(World).hist
          /\ recordingState' = resetRecordingState(recordingState)
          /\ sendResponse("start", i, FALSE, "RecordingFailed", NullData)
          /\ startReq' = [startReq EXCEPT ![i] = Idle]
          /\ UNCHANGED currentRecordingOptions
     ELSE /\ recordingState' = [isRecording |-> FALSE, isPaused |-> FALSE,
                                recordingType |-> startReq[i].options.recordingType,
                                currentTabId |-> startReq[i].options.tabId,
                                recordingStartTime |-> 0,
                                recordingData |-> NullData]
          /\ currentRecordingOptions' = startReq[i].options
          /\ startReq' = [startReq EXCEPT ![i].pc = "tab"]
          /\ reply' = NoReply
          /\ UNCHANGED hist
  /\ broadcast' = NoBroadcast
  /\ UNCHANGED <<badge, stopReq, closeReq, micFailedReq, toOff, toBg, clock>>
  /\ UNCHANGED offVars
  /\ UNCHANGED auth

TabOutcomes == {"ok", "noTab", "internalPage", "switchFailed", "noStreamId"}

\* the outcomes in which step 4 (chrome.tabCapture.getMediaStreamId) is
\* reached; the others return before it
StreamIdOutcomes == {"ok", "noStreamId"}

\* what the platform answers to the calls of the background's
\* startTabRecording: chrome.tabs.get resolves or rejects, the tab's url is
\* internal or not, the tab is active or not, chrome.tabs.update resolves or
\* rejects, chrome.tabCapture.getMediaStreamId gives an id, nothing, or throws
TabInputs == [get : BOOLEAN, internal : BOOLEAN, active : BOOLEAN, update : BOOLEAN,
              streamId : {"id", "empty", "throws"}]

\* startTabRecordingSteps with a failed activation ignored
startTabRecordingStepsIgnoringSwitch(in) ==
  IF ~in.get THEN [calls |-> <<"tabs.get">>, outcome |-> "noTab"]
  ELSE IF in.internal THEN [calls |-> <<"tabs.get">>, outcome |-> "internalPage"]
  ELSE LET activated == IF in.active THEN <<"tabs.get">>
                        ELSE <<"tabs.get", "tabs.update", "setTimeout">>
           requested == Append(activated, "tabCapture.getMediaStreamId")
       IN IF in.streamId # "id" THEN [calls |-> requested, outcome |-> "noStreamId"]
          ELSE [calls |-> Append(requested, "runtime.sendMessage"), outcome |-> "ok"]

\* steps 1-5 of the background's startTabRecording: the platform calls it
\* makes, in order, and how it ends
startTabRecordingSteps(in) ==
  IF ~in.get THEN [calls |-> <<"tabs.get">>, outcome |-> "noTab"]
  ELSE IF in.internal THEN [calls |-> <<"tabs.get">>, outcome |-> "internalPage"]
  ELSE IF ~in.active /\ ~in.update
  THEN [calls |-> <<"tabs.get", "tabs.update">>, outcome |-> "switchFailed"]
  ELSE LET activated == IF in.active THEN <<"tabs.get">>
                        ELSE <<"tabs.get", "tabs.update", "setTimeout">>
           requested == Append(activated, "tabCapture.getMediaStreamId")
       IN IF in.streamId # "id" THEN [calls |-> requested, outcome |-> "noStreamId"]
          ELSE [calls |-> Append(requested, "runtime.sendMessage"), outcome |-> "ok"]

\* the background's startTabRecording without the internal-page test of step 2
startTabRecordingNoUrlCheck(i, outcome) ==
  /\ startReq[i].pc = "tab"
  /\ IF outcome \in {"ok", "internalPage"}
     THEN /\ toOff' = Append(toOff, [action |-> "startTabRecording", from |-> "start",
                                     id |-> i, options |-> startReq[i].options])
          /\ hist' = [hist EXCEPT !.startTabSent[i] = @ + 1]
          /\ startReq' = [startReq EXCEPT ![i].pc = "wait"]
          /\ reply' = NoReply
          /\ UNCHANGED recordingState
     ELSE /\ CanFail
          /\ hist' = Fault(World).hist
          /\ recordingState' = resetRecordingState(recordingState)
          /\ sendResponse("start", i, FALSE, outcome, NullData)
          /\ startReq' = [startReq EXCEPT ![i] = Idle]
          /\ UNCHANGED toOff
  /\ broadcast' = NoBroadcast
  /\ UNCHANGED <<badge, stopReq, closeReq, toBg, clock>>
  /\ UNCHANGED offVars
  /\ UNCHANGED auth
  /\ UNCHANGED sessionVars

\* ... the options were stored and the background's startTabRecording ran its
\* steps 1-4 (tab lookup, internal-page check, activation, stream id); on
\* success step 5 sends startTabRecording to the offscreen document
startTabRecording(i, outcome) ==
  /\ startReq[i].pc = "tab"
  /\ \E in \in TabInputs : startTabRecordingSteps(in).outcome = outcome
  /\ IF outcome = "ok"
     THEN /\ toOff' = Append(toOff, [action |-> "startTabRecording", from |-> "start",
                                     id |-> i, options |-> startReq[i].options])
          /\ hist' = [hist EXCEPT !.startTabSent[i] = @ + 1]
          /\ startReq' = [startReq EXCEPT ![i].pc = "wait"]
          /\ reply' = NoReply
          /\ UNCHANGED recordingState
     ELSE /\ CanFail
          /\ hist' = Fault(World).hist
          /\ recordingState' = resetRecordingState(recordingState)
          /\ sendResponse("start", i, FALSE, outcome, NullData)
          /\ startReq' = [startReq EXCEPT ![i] = Idle]
          /\ UNCHANGED toOff
  /\ broadcast' = NoBroadcast
  /\ UNCHANGED <<badge, stopReq, closeReq, toBg, clock>>
  /\ UNCHANGED offVars
  /\ UNCHANGED auth
  /\ UNCHANGED sessionVars

IsResponse(to, id) ==
  /\ toBg # <<>>
  /\ Head(toBg).action = "response"
  /\ Head(toBg).to = to
  /\ Head(toBg).id = id

\* ... the offscreen document answered
handleStartRecordingResult(i) ==
  /\ startReq[i].pc = "wait"
  /\ IsResponse("start", i)
  /\ toBg' = Tail(toBg)
  /\ startReq' = [startReq EXCEPT ![i] = Done]
  /\ IF Head(toBg).success
     THEN /\ recordingState' = [recordingState EXCEPT !.isRecording = TRUE,
                                                      !.recordingStartTime = clock]
          /\ badge' = "REC"
          /\ notifyPopupStateChange
          /\ sendResponse("start", i, TRUE, "none", NullData)
     ELSE /\ recordingState' = resetRecordingState(recordingState)
          /\ sendResponse("start", i, FALSE, "offscreen", NullData)
          /\ broadcast' = NoBroadcast
          /\ UNCHANGED badge
  /\ UNCHANGED <<stopReq, closeReq, toOff, hist, clock>>
  /\ UNCHANGED offVars
  /\ UNCHANGED auth
  /\ UNCHANGED sessionVars

\* handleStopRecording without the isRecording test of its first lines
handleStopRecordingUnguarded(j) ==
  /\ stopReq[j] = "idle"
  /\ \A h \in 1..(j - 1) : stopReq[h] # "idle"
  /\ stopReq' = [stopReq EXCEPT ![j] = "wait"]
  /\ toOff' = Append(toOff, [action |-> "stopRecording", from |-> "stop",
                             id |-> j, options |-> NoOptions])
  /\ reply' = NoReply
  /\ broadcast' = NoBroadcast
  /\ UNCHANGED <<recordingState, badge, startReq, closeReq, toBg, hist, clock>>
  /\ UNCHANGED offVars
  /\ UNCHANGED auth
  /\ UNCHANGED sessionVars

\* handleStopRecording up to the await of the offscreen response
handleStopRecording(j) ==
  /\ stopReq[j] = "idle"
  /\ \A h \in 1..(j - 1) : stopReq[h] # "idle"
  /\ IF ~recordingState.isRecording
     THEN /\ sendResponse("stop", j, FALSE, "NoRecording", NullData)
          /\ UNCHANGED <<stopReq, toOff>>
     ELSE /\ stopReq' = [stopReq EXCEPT ![j] = "wait"]
          /\ toOff' = Append(toOff, [action |-> "stopRecording", from |-> "stop",
                                     id |-> j, options |-> NoOptions])
          /\ reply' = NoReply
  /\ broadcast' = NoBroadcast
  /\ UNCHANGED <<recordingState, badge, startReq, closeReq, toBg, hist, clock>>
  /\ UNCHANGED offVars
  /\ UNCHANGED auth
  /\ UNCHANGED sessionVars

\* ... the offscreen document answered
handleStopRecordingResult(j) ==
  /\ stopReq[j] = "wait"
  /\ IsResponse("stop", j)
  /\ toBg' = Tail(toBg)
  /\ stopReq' = [stopReq EXCEPT ![j] = "done"]
  /\ IF Head(toBg).success
     THEN /\ recordingState' = resetRecordingState(
               [recordingState EXCEPT !.recordingData = Head(toBg).recordingData])
          /\ badge' = ""
          /\ notifyPopupStateChange
          /\ sendResponse("stop", j, TRUE, "none", Head(toBg).recordingData)
     ELSE /\ sendResponse("stop", j, FALSE, "offscreen", NullData)
          /\ broadcast' = NoBroadcast
          /\ UNCHANGED <<recordingState, badge>>
  /\ UNCHANGED <<startReq, closeReq, toOff, hist, clock>>
  /\ UNCHANGED offVars
  /\ UNCHANGED auth
  /\ UNCHANGED sessionVars

\* chrome.tabs.onRemoved / the tabClosing message, for the recorded tab
handleTabClosing(k, tabId) ==
  /\ closeReq[k] = "idle"
  /\ \A h \in 1..(k - 1) : closeReq[h] # "idle"
  /\ IF recordingState.isRecording /\ recordingState.currentTabId = tabId
     THEN /\ CanFail
          /\ hist' = [Fault(World).hist EXCEPT
                        !.startsBeforeClose = {i \in Sessions : startReq[i].pc # "idle"}]
          /\ closeReq' = [closeReq EXCEPT ![k] = "wait"]
          /\ toOff' = Append(toOff, [action |-> "stopRecording", from |-> "close",
                                     id |-> k, options |-> NoOptions])
     ELSE UNCHANGED <<closeReq, toOff, hist>>
  /\ reply' = NoReply
  /\ broadcast' = NoBroadcast
  /\ UNCHANGED <<recordingState, badge, startReq, stopReq, toBg, clock>>
  /\ UNCHANGED offVars
  /\ UNCHANGED auth
  /\ UNCHANGED sessionVars

\* ... the .then of handleTabClosing's stopRecording message
handleTabClosingResult(k) ==
  /\ closeReq[k] = "wait"
  /\ IsResponse("close", k)
  /\ toBg' = Tail(toBg)
  /\ recordingState' = resetRecordingState(recordingState)
  /\ badge' = ""
  /\ closeReq' = [closeReq EXCEPT ![k] = "done"]
  /\ reply' = NoReply
  /\ broadcast' = NoBroadcast
  /\ UNCHANGED <<startReq, stopReq, toOff, hist, clock>>
  /\ UNCHANGED offVars
  /\ UNCHANGED auth
  /\ UNCHANGED sessionVars

handleRecordingError ==
  /\ recordingState' = resetRecordingState(recordingState)
  /\ badge' = ""
  /\ notifyPopupStateChange

\* handleRecordingComplete without the assignment of recordingData
handleRecordingCompleteDropsData(message) ==
  IF message.recordingData.kind # "artifact"
  THEN handleRecordingError
  ELSE /\ recordingState' = [recordingState EXCEPT !.isRecording = FALSE,
                                                   !.isPaused = FALSE]
       /\ badge' = ""
       /\ notifyPopupStateChange

handleRecordingComplete(message) ==
  IF message.recordingData.kind # "artifact"
  THEN handleRecordingError
  ELSE /\ recordingState' = [recordingState EXCEPT !.recordingData = message.recordingData,
                                                   !.isRecording = FALSE,
                                                   !.isPaused = FALSE]
       /\ badge' = ""
       /\ notifyPopupStateChange

\* handleMicrophoneAccessFailed up to the settlement of its
\* chrome.storage.session.get: the read is queued, the popup is told of the
\* failure (no recordingStateChanged is sent)
handleMicrophoneAccessFailed ==
  /\ micFailedReq' = Append(micFailedReq, currentRecordingOptions)
  /\ broadcast' = NoBroadcast
  /\ UNCHANGED <<recordingState, badge>>

\* ... the .then of the read: the options that were read are stored again with
\* includeMicrophone: false
handleMicrophoneAccessFailedRead ==
  /\ micFailedReq # <<>>
  /\ micFailedReq' = Tail(micFailedReq)
  /\ currentRecordingOptions' =
       IF Head(micFailedReq) # NoOptions
       THEN [Head(micFailedReq) EXCEPT !.includeMicrophone = FALSE]
       ELSE currentRecordingOptions
  /\ reply' = NoReply
  /\ broadcast' = NoBroadcast
  /\ UNCHANGED <<recordingState, badge, startReq, stopReq, closeReq, toOff, toBg, hist, clock>>
  /\ UNCHANGED offVars
  /\ UNCHANGED auth

\* the background's onMessage listener for what the offscreen document sends
onMessage ==
  /\ toBg # <<>>
  /\ Head(toBg).action # "response"
  /\ toBg' = Tail(toBg)
  /\ CASE Head(toBg).action = "recordingComplete" ->
              handleRecordingComplete(Head(toBg)) /\ UNCHANGED micFailedReq
       [] Head(toBg).action = "recordingError" ->
              handleRecordingError /\ UNCHANGED micFailedReq
       [] Head(toBg).action = "microphoneAccessFailed" ->
              handleMicrophoneAccessFailed
       [] OTHER -> /\ UNCHANGED <<recordingState, badge, micFailedReq>>
                   /\ notifyPopupStateChange
  /\ reply' = NoReply
  /\ UNCHANGED <<startReq, stopReq, closeReq, currentRecordingOptions, toOff, hist, clock>>
  /\ UNCHANGED offVars
  /\ UNCHANGED auth

\* ------------------------------------------------------ offscreen actions
\* onMessage 'startTabRecording': startTabRecording up to the await of the
\* tab stream (getUserMedia in createTabCombinedStreamWithAudio)
Off_startTabRecording(s) ==
  /\ toOff # <<>>
  /\ Head(toOff).action = "startTabRecording"
  /\ Head(toOff).id = s
  /\ toOff' = Tail(toOff)
  /\ off' = [off EXCEPT !.recordedChunks = <<>>, !.audioChunks = <<>>,
                        !.chunkBlobs = <<>>, !.audioChunkBlobs = <<>>,
                        !.currentChunkSize = 0, !.audioChunkSize = 0,
                        !.totalPausedTime = 0, !.lastPauseTime = 0,
                        !.recordingStartTime = clock]
  /\ hist' = [hist EXCEPT !.video = <<>>, !.audio = <<>>,
                          !.final = InitialHistory.final,
                          !.startedAt[s] = clock]
  /\ offStart' = [offStart EXCEPT ![s] = [pc |-> "getTab", options |-> Head(toOff).options]]
  /\ UNCHANGED <<rec, pend, live, ctx, listener, supportedTypes, toBg, clock>>
  /\ UNCHANGED bgVars
  /\ Silent

\* ... the tab stream was granted or refused; with a stream the audio graph is
\* built, and without a microphone request the encoders are started at once
Off_gotTabStream(s, outcome, enc) ==
  /\ offStart[s].pc = "getTab"
  /\ (outcome # "ok" \/ (enc # "ok" /\ ~offStart[s].options.includeMicrophone)) => CanFail
  /\ LET o == offStart[s].options
         World0 == IF outcome # "ok" \/ (enc # "ok" /\ ~o.includeMicrophone)
                   THEN Fault(World) ELSE World
         tabTracks == {<<s, "video">>} \cup
                      (IF o.includeDeviceAudio THEN {<<s, "tabAudio">>} ELSE {})
         w1 == [World0 EXCEPT !.off.originalTabStream = MediaStream(tabTracks),
                              !.live = @ \cup tabTracks]
         w2a == [w1 EXCEPT !.off.audioContext = s, !.off.destination = s,
                           !.ctx[s] = "running", !.live = @ \cup {<<s, "dest">>}]
         w2 == IF o.includeDeviceAudio THEN connectTabAudio(w2a, s) ELSE w2a
         audioTracks == IF o.includeDeviceAudio THEN {<<s, "dest">>} ELSE {}
         videoTracks == VideoTracks(w2.off.originalTabStream)
     IN CASE outcome = "denied" ->
               /\ Commit(RespondStart([cleanup(World0) EXCEPT !.result = FALSE], s))
               /\ offStart' = [offStart EXCEPT ![s] = [pc |-> "done", options |-> NoOptions]]
               /\ UNCHANGED listener
          [] outcome = "contextFailed" ->
               /\ Commit(RespondStart([cleanup(w1) EXCEPT !.result = FALSE], s))
               /\ offStart' = [offStart EXCEPT ![s] = [pc |-> "done", options |-> NoOptions]]
               /\ UNCHANGED listener
          [] OTHER ->
               IF o.includeMicrophone
               THEN /\ Commit(w2)
                    /\ offStart' = [offStart EXCEPT ![s].pc = "getMic"]
                    /\ UNCHANGED listener
               ELSE LET w3 == finishStart(w2, s, MediaStream(videoTracks \cup audioTracks),
                                          MediaStream(audioTracks), enc)
                    IN /\ Commit(RespondStart(w3, s))
                       /\ offStart' = [offStart EXCEPT ![s] = [pc |-> "done", options |-> NoOptions]]
                       /\ listener' = IF w3.result THEN listener \cup videoTracks
                                      ELSE listener
  /\ UNCHANGED <<toOff, clock>>
  /\ UNCHANGED bgVars
  /\ Silent

\* ... the microphone stream was granted or refused
Off_gotMicStream(s, granted, enc) ==
  /\ offStart[s].pc = "getMic"
  /\ enc # "ok" => CanFail
  /\ LET World0 == IF enc # "ok" THEN Fault(World) ELSE World
         w1 == IF granted
               THEN [World0 EXCEPT !.off.micStream = MediaStream({<<s, "mic">>}),
                                   !.live = @ \cup {<<s, "mic">>}]
               ELSE World0
         \* createMediaStreamSource on a nulled context and connect to a nulled
         \* destination throw inside the inner try
         w1a == IF granted /\ w1.off.audioContext # 0
                THEN connectMicrophone(w1, w1.off.audioContext) ELSE w1
         w2 == IF granted /\ w1.off.audioContext # 0 /\ w1.off.destination # 0 THEN w1a
               ELSE Notify([w1a EXCEPT !.hist.microphoneAccessFailed = @ \cup {s}],
                           "microphoneAccessFailed", s, NullData)
         broken == w2.off.originalTabStream.null \/ w2.off.destination = 0
         videoTracks == VideoTracks(w2.off.originalTabStream)
         destTracks == {<<w2.off.destination, "dest">>}
         w3 == IF broken THEN [cleanup(w2) EXCEPT !.result = FALSE]
               ELSE finishStart(w2, s, MediaStream(videoTracks \cup destTracks),
                                MediaStream(destTracks), enc)
     IN /\ Commit(RespondStart(w3, s))
        /\ offStart' = [offStart EXCEPT ![s] = [pc |-> "done", options |-> NoOptions]]
        /\ listener' = IF w3.result THEN listener \cup videoTracks ELSE listener
  /\ UNCHANGED <<toOff, clock>>
  /\ UNCHANGED bgVars
  /\ Silent

\* onMessage 'stopRecording'
Off_stopRecording(strict) ==
  /\ toOff # <<>>
  /\ Head(toOff).action = "stopRecording"
  /\ toOff' = Tail(toOff)
  /\ Commit(Respond(stopRecording(World, strict), Head(toOff).from, Head(toOff).id))
  /\ UNCHANGED <<offStart, listener, clock>>
  /\ UNCHANGED bgVars
  /\ Silent

\* the n-th piece of data emitted by encoder k of session s
NewChunk(s, k) ==
  <<[s |-> s, kind |-> k, n |-> hist.emitted[s][k] + 1, size |-> ChunkMB]>>

Emit(w, s, k) ==
  ondataavailable([w EXCEPT !.hist.nChunks = @ + 1, !.hist.emitted[s][k] = @ + 1],
                  k, NewChunk(s, k))

\* the periodic dataavailable event of a recording encoder (start(1000))
DataAvailable(s, k) ==
  /\ rec[s][k] = "recording"
  /\ hist.nChunks < MaxChunks
  /\ Commit(Emit(World, s, k))
  /\ UNCHANGED <<offStart, listener, toOff, clock>>
  /\ UNCHANGED bgVars
  /\ Silent

\* the task queued by MediaRecorder.stop(): a final dataavailable (its data may
\* be empty), then the stop event.  The encoders' tasks run in the order in
\* which they were queued.
RecorderStopped(s, k, hasData) ==
  /\ pend # <<>>
  /\ Head(pend) = <<s, k>>
  /\ hasData => hist.nChunks < MaxChunks
  /\ LET w0 == [World EXCEPT !.pend = Tail(@)]
         w1 == IF hasData THEN Emit(w0, s, k) ELSE w0
     IN Commit(IF k = "video" THEN handleRecordingStop(w1, s) ELSE w1)
  /\ UNCHANGED <<offStart, listener, toOff, clock>>
  /\ UNCHANGED bgVars
  /\ Silent

\* an encoder fails: it becomes inactive, its error event is fired, and its
\* final dataavailable and stop events follow as for a stop
EncoderError(s, k) ==
  /\ rec[s][k] = "recording"
  /\ CanFail
  /\ LET w0 == [RecorderStop(Fault(World), s, k) EXCEPT !.hist.errored = @ \cup {s}]
     IN Commit(IF k = "video" THEN notifyError(releaseAllStreams(w0), s) ELSE w0)
  /\ UNCHANGED <<offStart, listener, toOff, clock>>
  /\ UNCHANGED bgVars
  /\ Silent

\* the user revokes the capture of session s: its tab tracks end, and the
\* 'ended' listener of the video track runs releaseAllStreams and stopRecording
VideoTrackEnded(s, strict) ==
  /\ <<s, "video">> \in live
  /\ CanFail
  /\ LET w0 == [Fault(World) EXCEPT !.live = @ \ {<<s, "video">>, <<s, "tabAudio">>},
                                    !.hist.ended = @ \cup {s}]
     IN Commit(IF <<s, "video">> \in listener
               THEN stopRecording(releaseAllStreams(w0), strict)
               ELSE w0)
  /\ UNCHANGED <<offStart, listener, toOff, clock>>
  /\ UNCHANGED bgVars
  /\ Silent

\* audioContext.close() of session c settles: the suspended releaseAllStreams
\* resumes
releaseAllStreamsResume(c) ==
  /\ ctx[c] = "closing"
  /\ Commit(releaseAllStreamsTail([World EXCEPT !.ctx[c] = "closed"]))
  /\ UNCHANGED <<offStart, listener, toOff, clock>>
  /\ UNCHANGED bgVars
  /\ Silent

\* ------------------------------------------------------------------ Next
Kinds == {"video", "audio"}

TabOnlyOptions == {o \in Options : ~o.includeMicrophone}

\* requests of the UI surfaces and the background's handling of the answers
NextBackground(options, auths) ==
  \/ \E i \in {0} \cup Sessions, o \in options : handleStartRecording(i, o)
  \/ \E i \in Sessions, a \in auths : handleStartRecordingChecked(i, a, TRUE)
  \/ \E i \in Sessions : startTabRecording(i, "ok")
  \/ \E i \in Sessions : handleStartRecordingResult(i)
  \/ \E j \in 1..MaxStops : handleStopRecording(j)
  \/ \E j \in 1..MaxStops : handleStopRecordingResult(j)
  \/ onMessage

\* the capture pipeline when every platform call succeeds
NextOffscreen ==
  \/ \E s \in Sessions : Off_startTabRecording(s)
  \/ \E s \in Sessions : Off_gotTabStream(s, "ok", "ok")
  \/ \E strict \in BOOLEAN : Off_stopRecording(strict)
  \/ \E s \in Sessions, k \in Kinds : DataAvailable(s, k)
  \/ \E s \in Sessions, k \in Kinds, d \in BOOLEAN : RecorderStopped(s, k, d)
  \/ \E c \in Sessions : releaseAllStreamsResume(c)

\* what can go wrong inside the capture pipeline while a recording runs
NextRuntimeFaults ==
  \/ \E s \in Sessions, k \in Kinds : EncoderError(s, k)
  \/ \E s \in Sessions, strict \in BOOLEAN : VideoTrackEnded(s, strict)

\* tabs being closed
NextTabClosing ==
  \/ \E k \in 1..MaxCloses, t \in Tabs : handleTabClosing(k, t)
  \/ \E k \in 1..MaxCloses : handleTabClosingResult(k)

\* what can go wrong while a recording is started
NextStartFaults ==
  \/ \E i \in Sessions : handleStartRecordingChecked(i, TRUE, FALSE)
  \/ \E i \in Sessions, t \in TabOutcomes \ {"ok"} : startTabRecording(i, t)
  \/ \E s \in Sessions, t \in {"denied", "contextFailed"} : Off_gotTabStream(s, t, "ok")
  \/ \E s \in Sessions, e \in EncOutcomes \ {"ok"} : Off_gotTabStream(s, "ok", e)

\* the microphone of a recording that asked for one
NextMicrophone ==
  \/ \E s \in Sessions, g \in BOOLEAN, e \in EncOutcomes : Off_gotMicStream(s, g, e)
  \/ handleMicrophoneAccessFailedRead

\* Spec: recordings of a tab without microphone, with the faults of a running
\* capture pipeline
Next == NextBackground(TabOnlyOptions, BOOLEAN) \/ NextOffscreen \/ NextRuntimeFaults

Spec == Init /\ [][Next]_vars

\* SpecStart: recordings of a tab without microphone, with the faults of the
\* start sequence
NextStart == NextBackground(TabOnlyOptions, BOOLEAN) \/ NextOffscreen \/ NextStartFaults

SpecStart == Init /\ [][NextStart]_vars

\* SpecClose: recordings of a tab without microphone, with tabs being closed
NextClose == NextBackground(TabOnlyOptions, BOOLEAN) \/ NextOffscreen \/ NextTabClosing

SpecClose == Init /\ [][NextClose]_vars

\* SpecMic: recordings that ask for the microphone, which is granted or
\* refused, with the encoder failures of their start
MicOptions == {o \in Options : o.includeMicrophone}
NextMic ==
  \/ NextBackground(MicOptions, {TRUE})
  \/ \E s \in Sessions : Off_startTabRecording(s)
  \/ \E s \in Sessions : Off_gotTabStream(s, "ok", "ok")
  \/ \E strict \in BOOLEAN : Off_stopRecording(strict)
  \/ \E s \in Sessions, k \in Kinds, d \in BOOLEAN : RecorderStopped(s, k, d)
  \/ \E c \in Sessions : releaseAllStreamsResume(c)
  \/ NextMicrophone

SpecMic == Init /\ [][NextMic]_vars

\* SpecMime: one start of a tab recording on a runtime that supports any set
\* of the types
InitMime == \E supported \in SUBSET MimeTypes : InitRuntime(supported)

NextMime ==
  \/ \E o \in TabOnlyOptions : handleStartRecording(1, o)
  \/ handleStartRecordingChecked(1, TRUE, TRUE)
  \/ startTabRecording(1, "ok")
  \/ Off_startTabRecording(1)
  \/ Off_gotTabStream(1, "ok", "ok")
  \/ handleStartRecordingResult(1)

SpecMime == InitMime /\ [][NextMime]_vars

\* SpecRefresh: the token-refresh scheduling of the background on its own
NextRefresh ==
  \/ onInstalled
  \/ \E tokens \in {"soon", "valid", "garbage"} : handleVerifyOTP(tokens)
  \/ TokensRemoved
  \/ \E e \in {"tokensUpdated", "loginSuccess", "tokensCleared", "logoutComplete"} :
       handleAuthEvent(e)
  \/ scheduleTokenRefreshRead
  \/ \E id \in 1..MaxTimers : TimerFires(id)
  \/ \E ok \in BOOLEAN, tokens \in {"soon", "valid"} : RefreshSettles(ok, tokens)

SpecRefresh == Init /\ [][NextRefresh]_vars

\* SpecNoAudio: recordings of a tab that ask for no audio at all, with the
\* encoder failures of their start
NoAudioOptions == {[recordingType |-> "tab", tabId |-> 1,
                    includeDeviceAudio |-> FALSE, includeMicrophone |-> FALSE]}
NextNoAudio ==
  \/ NextBackground(NoAudioOptions, {TRUE})
  \/ NextOffscreen
  \/ \E s \in Sessions, e \in EncOutcomes \ {"ok"} : Off_gotTabStream(s, "ok", e)

SpecNoAudio == Init /\ [][NextNoAudio]_vars

\* time passes
Tick ==
  /\ clock < MaxClock
  /\ clock' = clock + TickMs
  /\ UNCHANGED <<broadcast, reply, toOff, toBg, hist>>
  /\ UNCHANGED bgVars
  /\ UNCHANGED offVars
  /\ UNCHANGED auth

\* SpecTime: recordings of a tab without microphone and without fault, while
\* time passes
NextTime ==
  \/ NextBackground(TabOnlyOptions, {TRUE})
  \/ \E s \in Sessions : Off_startTabRecording(s)
  \/ \E s \in Sessions : Off_gotTabStream(s, "ok", "ok")
  \/ \E strict \in BOOLEAN : Off_stopRecording(strict)
  \/ \E s \in Sessions, k \in Kinds, d \in BOOLEAN : RecorderStopped(s, k, d)
  \/ \E c \in Sessions : releaseAllStreamsResume(c)
  \/ Tick

SpecTime == Init /\ [][NextTime]_vars

\* SpecAcc: one recording of a tab whose encoders deliver chunks of one size
\* per kind, up to MaxAccTotal MiB per kind; nothing stops the recording
AccChunkSizes == {1, 30, 120}
MaxAccTotal == 125

\* the data delivered so far to the accumulator of kind k
Delivered(k) == IF k = "video" THEN hist.video ELSE hist.audio

\* the periodic dataavailable event of a recording encoder, with data of size n
AccDataAvailable(s, k, n) ==
  /\ rec[s][k] = "recording"
  /\ \A i \in DOMAIN Delivered(k) : Delivered(k)[i].size = n
  /\ BlobSize(Delivered(k)) + n <= MaxAccTotal
  /\ Commit(ondataavailable([World EXCEPT !.hist.emitted[s][k] = @ + 1], k,
                            <<[s |-> s, kind |-> k, n |-> hist.emitted[s][k] + 1, size |-> n]>>))
  /\ UNCHANGED <<offStart, listener, toOff, clock>>
  /\ UNCHANGED bgVars
  /\ Silent

NextAcc ==
  \/ \E o \in TabOnlyOptions : handleStartRecording(1, o)
  \/ handleStartRecordingChecked(1, TRUE, TRUE)
  \/ startTabRecording(1, "ok")
  \/ Off_startTabRecording(1)
  \/ Off_gotTabStream(1, "ok", "ok")
  \/ handleStartRecordingResult(1)
  \/ \E k \in Kinds, n \in AccChunkSizes : AccDataAvailable(1, k, n)

SpecAcc == Init /\ [][NextAcc]_vars

\* SpecStop: one recording of a tab and up to StopSlots stopRecording requests
\* relayed to the offscreen document, without faults
NextStop ==
  \/ \E o \in TabOnlyOptions : handleStartRecording(1, o)
  \/ handleStartRecordingChecked(1, TRUE, TRUE)
  \/ startTabRecording(1, "ok")
  \/ handleStartRecordingResult(1)
  \/ \E j \in 1..StopSlots : handleStopRecording(j)
  \/ \E j \in 1..StopSlots : handleStopRecordingResult(j)
  \/ onMessage
  \/ Off_startTabRecording(1)
  \/ Off_gotTabStream(1, "ok", "ok")
  \/ \E strict \in BOOLEAN : Off_stopRecording(strict)
  \/ \E k \in Kinds : DataAvailable(1, k)
  \/ \E k \in Kinds, d \in BOOLEAN : RecorderStopped(1, k, d)
  \/ releaseAllStreamsResume(1)

SpecStop == Init /\ [][NextStop]_vars

\* ---------------------------------------------------------------- claims
\* a step in which the background's listener receives a startRecording request
StartRequest == \E i \in {0} \cup Sessions, o \in Options : handleStartRecording(i, o)

\* the Starting phase: a start request was accepted and not yet answered
Starting == \E i \in Sessions : startReq[i].pc \in {"auth", "tab", "wait"}

\* tracks and encoders that session s still holds
Holds(s) ==
  \/ \E t \in live : t[1] = s
  \/ rec[s].video = "recording"
  \/ rec[s].audio = "recording"

\* C1: a startRecording request handled while recordingState.isRecording is
\* true is answered with success=false (already recording), sends no
\* startTabRecording to the offscreen document, accepts nothing and leaves
\* every field of recordingState unchanged.
C1_StartWhileRecordingRejected ==
  [][(recordingState.isRecording /\ StartRequest) =>
       /\ reply'.to = "start"
       /\ ~reply'.success
       /\ reply'.error = "AlreadyRecording"
       /\ toOff' = toOff
       /\ hist'.startTabSent = hist.startTabSent
       /\ startReq' = startReq
       /\ recordingState' = recordingState]_vars

C1_Witness ==
  /\ recordingState.isRecording
  /\ reply.to = "start"
  /\ reply.error = "AlreadyRecording"

\* C2: a startRecording request that arrives during the Starting phase of an
\* earlier request is rejected as already recording: it is not accepted, sends
\* nothing to the offscreen document and leaves recordingState unchanged.
C2_StartWhileStartingRejected ==
  [][(Starting /\ StartRequest) =>
       /\ reply'.to = "start"
       /\ ~reply'.success
       /\ reply'.error = "AlreadyRecording"
       /\ toOff' = toOff
       /\ startReq' = startReq
       /\ recordingState' = recordingState]_vars

\* C3: at most one capture pipeline exists at any time: no session acquires
\* tracks or starts encoders while another session still has live tracks or
\* recording encoders.
C3_OnePipeline ==
  \A s, t \in Sessions : (Holds(s) /\ Holds(t)) => s = t

\* the Complete state: recording ended and recordingData holds the artifact
\* that handleRecordingStop finalized
Complete ==
  /\ ~recordingState.isRecording
  /\ ~recordingState.isPaused
  /\ recordingState.recordingData.kind = "artifact"
  /\ hist.final.built
  /\ recordingState.recordingData.url = hist.final.video
  /\ recordingState.recordingData.size = BlobSize(hist.final.video)

\* the system is at rest: no message is queued, no handler is suspended, no
\* encoder task is pending
AtRest ==
  /\ toOff = <<>>
  /\ toBg = <<>>
  /\ pend = <<>>
  /\ \A s \in Sessions : /\ ctx[s] # "closing"
                         /\ offStart[s].pc \in {"none", "done"}
                         /\ startReq[s].pc \in {"idle", "done"}
  /\ \A j \in 1..StopSlots : stopReq[j] \in {"idle", "done"}

\* a stopRecording request was accepted while recording, and answered
StopAnswered == \E j \in 1..StopSlots : stopReq[j] = "done"

C5_StopReplyCarriesArtifact ==
  (reply.to = "stop" /\ reply.success) =>
     /\ reply.recordingData.kind = "artifact"
     /\ recordingState.recordingData = reply.recordingData

\* C6: when the recordingComplete of a session whose video track ended is
\* handled, the background ends in the state an explicit stop leaves:
\* isRecording=false, recordingType=null, currentTabId=null,
\* recordingStartTime=null and recordingData populated.
C6_NaturalEndLikeStop ==
  [][(/\ onMessage
      /\ Head(toBg).action = "recordingComplete"
      /\ Head(toBg).id \in hist.ended) =>
       /\ ~recordingState'.isRecording
       /\ recordingState'.recordingType = "null"
       /\ recordingState'.currentTabId = 0
       /\ recordingState'.recordingStartTime = 0
       /\ recordingState'.recordingData.kind = "artifact"]_vars

\* C7: an error event of either encoder of a recording session stops both
\* encoders, stops every track of the session, starts closing its audio
\* context and reports recordingError.
C7_EncoderErrorTearsDown ==
  [][\A s \in Sessions, k \in Kinds :
       EncoderError(s, k) =>
         /\ rec'[s].video = "inactive"
         /\ rec'[s].audio = "inactive"
         /\ \A t \in live' : t[1] # s
         /\ ctx'[s] \in {"closing", "closed"}
         /\ hist'.error[s] = hist.error[s] + 1]_vars

\* C8: after an encoder error in a session no recordingComplete is sent for
\* that session.
C8_NoCompleteAfterError ==
  [][\A s \in hist.errored : hist'.complete[s] = hist.complete[s]]_vars

\* C9: no session sends more than one terminal notification (recordingComplete
\* or recordingError): never both, never the same one twice.
C9_OneTerminalNotification ==
  \A s \in Sessions : hist.complete[s] + hist.error[s] <= 1

\* C10: in a run without encoder error or ended track, once a recording was
\* finalized and every encoder's stop event was handled, the final blob of each
\* kind is the concatenation, in arrival order, of the non-empty chunks
\* delivered to the accumulator since the start.
C10_FinalBlobIsConcatenation ==
  (/\ hist.final.built
   /\ hist.errored = {}
   /\ hist.ended = {}
   /\ pend = <<>>
   /\ \A s \in Sessions : rec[s].video # "recording" /\ rec[s].audio # "recording") =>
     /\ hist.final.video = hist.video
     /\ hist.final.audio = hist.audio

\* the memoryWarning messages sent so far
MemoryWarnings == Cardinality({i \in DOMAIN toBg : toBg[i].action = "memoryWarning"})

\* C11: once the video data received in a session exceeds 100 MiB exactly one
\* memoryWarning has been sent; after 120 chunks of 1 MiB there are exactly 2
\* intermediate blobs, 20 MiB unflushed and one memoryWarning.
C11_MemoryWarningOncePerCrossing ==
  /\ BlobSize(hist.video) > MemoryWarningSize => MemoryWarnings = 1
  /\ (Len(hist.video) = 120 /\ BlobSize(hist.video) = 120) =>
       /\ Len(off.chunkBlobs) = 2
       /\ off.currentChunkSize = 20
       /\ MemoryWarnings = 1

\* every stream and context reference of the offscreen recorder is null
\* (originalDisplayStream is never assigned by this revision)
AllReferencesNull ==
  /\ off.currentStream.null
  /\ off.audioOnlyStream.null
  /\ off.originalTabStream.null
  /\ off.micStream.null
  /\ off.destination = 0
  /\ off.audioContext = 0

\* a call of releaseAllStreams ran to its end in the offscreen document's
\* latest step
ReleaseCompleted == hist.allStreamsReleased > 0

\* C12: whenever a call of releaseAllStreams has run to its end, be it the
\* first, a repeated or a re-entered one, currentStream, audioOnlyStream,
\* originalTabStream, micStream, destination and audioContext are all null.
C12_ReleaseLeavesReferencesNull ==
  ReleaseCompleted => AllReferencesNull

\* the chunks the accumulator holds, flushed or not
RecordedData == <<off.recordedChunks, off.audioChunks, off.chunkBlobs, off.audioChunkBlobs>>

StoppedTracks(s) ==
  {t \in live \ live' :
     /\ t[1] = s
     /\ ~(t[2] \in {"video", "tabAudio"} /\ \E strict \in BOOLEAN : VideoTrackEnded(s, strict))}

\* C14: whenever a handler stops a track of a session (explicit stop, video
\* track ended, encoder error, cleanup), the stop request to each encoder of
\* that session that was recording has been issued first: after the step none
\* of the session's encoders is recording.
C14_EncodersStoppedBeforeTracks ==
  [][\A s \in Sessions :
       StoppedTracks(s) # {} => (rec'[s].video # "recording" /\ rec'[s].audio # "recording")]_vars

\* teardown has finished: no releaseAllStreams call is suspended at the close
\* of an audio context and every reference is null
TeardownFinished ==
  /\ \A c \in Sessions : ctx[c] # "closing"
  /\ AllReferencesNull

\* the step sends the offscreen recorder's success reply to a stopRecording
StopSucceeds ==
  /\ \E strict \in BOOLEAN : Off_stopRecording(strict)
  /\ toBg'[Len(toBg')].action = "response"
  /\ toBg'[Len(toBg')].success

\* C15: the offscreen recorder's success reply to stopRecording is sent only
\* after releaseAllStreams has run to its end, and so is the background's
\* success reply to the stop request.
C15_StopReportedAfterTeardown ==
  /\ [][StopSucceeds => TeardownFinished']_vars
  /\ []((reply.to = "stop" /\ reply.success) => TeardownFinished)

\* C16: in a run without platform faults, whenever allStreamsReleased is sent
\* teardown has completed fully: no audio context is still closing, every
\* track of a session whose context was closed is stopped, and all stream and
\* context references are null.
C16_ReleasedMeansTornDown ==
  (ReleaseCompleted /\ hist.nFaults = 0) =>
    /\ \A c \in Sessions : ctx[c] # "closing"
    /\ \A t \in live : ctx[t[1]] = "running"
    /\ AllReferencesNull

\* the step in which start request i learns that the offscreen recorder
\* started: stream id, stream acquisition and encoder start all succeeded
StartSucceeds(i) ==
  /\ handleStartRecordingResult(i)
  /\ Head(toBg).success

\* C17: a start request whose authentication, options, tab, stream id,
\* stream acquisition and encoder start all succeed ends with reply
\* success=true, recordingState.isRecording=true, currentTabId equal to the
\* requested tab, recordingStartTime non-null, badge "REC" and a
\* recordingStateChanged broadcast carrying that state.
C17_StartEndsRecording ==
  [][\A i \in Sessions :
       StartSucceeds(i) =>
         /\ reply'.to = "start"
         /\ reply'.id = i
         /\ reply'.success
         /\ recordingState'.isRecording
         /\ recordingState'.currentTabId = startReq[i].options.tabId
         /\ recordingState'.recordingStartTime # 0
         /\ badge' = "REC"
         /\ broadcast'.sent
         /\ broadcast'.state = recordingState']_vars

\* C18: a start request whose target tab has a browser-internal URL fails in
\* the step that finds it out, with an error reply: no stream id is
\* requested, nothing is sent to the offscreen recorder, and recordingState
\* ends with isRecording=false, currentTabId=null and recordingStartTime=null.
C18_InternalPageRejected ==
  [][\A i \in Sessions :
       startTabRecording(i, "internalPage") =>
         /\ reply'.to = "start"
         /\ reply'.id = i
         /\ ~reply'.success
         /\ reply'.error = "internalPage"
         /\ reply'.error \notin StreamIdOutcomes
         /\ toOff' = toOff
         /\ hist'.startTabSent = hist.startTabSent
         /\ ~recordingState'.isRecording
         /\ recordingState'.currentTabId = 0
         /\ recordingState'.recordingStartTime = 0]_vars

C18_Witness ==
  /\ reply.to = "start"
  /\ reply.error = "internalPage"
  /\ ~recordingState.isRecording
  /\ recordingState.currentTabId = 0
  /\ \E i \in Sessions : reply.id = i /\ hist.startTabSent[i] = 0

\* the step in which start request i is answered with a failure
StartFails(i) ==
  /\ startReq[i].pc \in {"auth", "tab", "wait"}
  /\ reply'.to = "start"
  /\ reply'.id = i
  /\ ~reply'.success

\* C19: when a start attempt fails at any step, recordingState.recordingData
\* after the failure is the artifact that recordingState held when the start
\* request was received.
C19_FailedStartKeepsArtifact ==
  [][\A i \in Sessions :
       (StartFails(i) /\ startReq[i].data.kind = "artifact") =>
          recordingState'.recordingData = startReq[i].data]_vars

\* C20: every step of the background that changes recordingState sends a
\* recordingStateChanged broadcast carrying the new state.
C20_EveryChangeBroadcast ==
  [][recordingState' # recordingState =>
       (broadcast'.sent /\ broadcast'.state = recordingState')]_vars

\* the messages that the step's handler sent to the background
Sent == SubSeq(toBg', Len(toBg) + 1, Len(toBg'))

\* C21: when the microphone is refused while a recording with
\* includeMicrophone=true is started and the encoders start, the start
\* succeeds with tab-only capture: microphoneAccessFailed is sent, both
\* encoders of the session are recording on the tab video and the mix
\* destination, the offscreen reply is success=true, and the background
\* reaches isRecording=true when it handles that reply.
C21_MicrophoneRefusedStartSucceeds ==
  /\ [][\A s \in Sessions :
          (Off_gotMicStream(s, FALSE, "ok") /\ hist.nFaults = 0) =>
            /\ \E m \in Range(Sent) : m.action = "microphoneAccessFailed" /\ m.id = s
            /\ rec'[s].video = "recording"
            /\ rec'[s].audio = "recording"
            /\ ~off'.currentStream.null
            /\ off'.currentStream.tracks = VideoTracks(off.originalTabStream) \cup {<<off.destination, "dest">>}
            /\ off'.audioOnlyStream.tracks = {<<off.destination, "dest">>}
            /\ \E m \in Range(Sent) : m.action = "response" /\ m.to = "start" /\ m.id = s /\ m.success]_vars
  /\ [][\A i \in Sessions : StartSucceeds(i) => recordingState'.isRecording]_vars

\* the background handles a microphoneAccessFailed message, or the read of the
\* stored options that this handling started settles
MicrophoneFailureHandled ==
  \/ onMessage /\ Head(toBg).action = "microphoneAccessFailed"
  \/ handleMicrophoneAccessFailedRead

\* every microphoneAccessFailed message sent so far was handled to the end
NoMicrophoneFailurePending ==
  /\ micFailedReq = <<>>
  /\ \A i \in DOMAIN toBg : toBg[i].action # "microphoneAccessFailed"

\* C22: handling microphoneAccessFailed leaves every field of recordingState
\* unchanged and stops no encoder and no track, and once it was handled, for
\* as long as the recording whose microphone failed goes on, the stored
\* currentRecordingOptions have includeMicrophone=false.
C22_MicrophoneFailureKeepsRecording ==
  /\ [][MicrophoneFailureHandled =>
          /\ recordingState' = recordingState
          /\ rec' = rec
          /\ live' = live
          /\ toOff' = toOff]_vars
  /\ [](\A s \in hist.microphoneAccessFailed :
          (/\ recordingState.isRecording
           /\ off.isRecording
           /\ off.mediaRecorder = s
           /\ rec[s].video = "recording"
           /\ NoMicrophoneFailurePending) =>
             /\ currentRecordingOptions # NoOptions
             /\ ~currentRecordingOptions.includeMicrophone)

\* the step in which the combined encoder's stop event of session s is
\* handled and recordingComplete is sent
RecordingCompleted(s) ==
  /\ \E d \in BOOLEAN : RecorderStopped(s, "video", d)
  /\ hist'.complete[s] = hist.complete[s] + 1

\* C23: the duration in the artifact of every completed recording is (stop
\* timestamp - start timestamp - total paused time) / 1000, with the start
\* timestamp that the session's startTabRecording took; it is never computed
\* from a start time that cleanup has reset to null.
C23_DurationFromStartTimestamp ==
  [][\A s \in Sessions :
       RecordingCompleted(s) =>
         /\ off.recordingStartTime # 0
         /\ \A m \in Range(Sent) :
              m.action = "recordingComplete" =>
                m.recordingData.duration =
                  (clock - hist.startedAt[s] - off.totalPausedTime) \div 1000]_vars

\* a step in which the background's listener receives a stopRecording request
StopRequest == \E j \in 1..StopSlots : handleStopRecording(j)

\* C24: a stopRecording request handled by the background while
\* recordingState.isRecording is false is answered with success=false (no
\* recording in progress), sends no message to the offscreen recorder and
\* leaves recordingState unchanged.
C24_StopWhileNotRecordingRejected ==
  [][(~recordingState.isRecording /\ StopRequest) =>
       /\ reply'.to = "stop"
       /\ ~reply'.success
       /\ reply'.error = "NoRecording"
       /\ toOff' = toOff
       /\ stopReq' = stopReq
       /\ recordingState' = recordingState]_vars

C24_Witness ==
  /\ ~recordingState.isRecording
  /\ reply.to = "stop"
  /\ reply.error = "NoRecording"
  /\ toOff = <<>>

\* a step in which the background learns that tab t is closing
TabClosing(t) == \E k \in 1..MaxCloses : handleTabClosing(k, t)

\* the system is at rest after the recorded tab was closed during a recording,
\* and no start request was received since
AtRestAfterClose ==
  /\ AtRest
  /\ \E k \in 1..MaxCloses : closeReq[k] = "done"
  /\ \A k \in 1..MaxCloses : closeReq[k] # "wait"
  /\ \A i \in Sessions : startReq[i].pc # "idle" => i \in hist.startsBeforeClose

\* C25: when the tab being recorded is closed during recording the background
\* sends stopRecording to the offscreen recorder, and the system comes to
\* rest with no encoder recording, every track stopped, all stream and
\* context references null, and recordingState.isRecording=false with
\* currentTabId=null; a tab-closing notification for another tab, or while
\* not recording, changes nothing.
C25_TabClosingStopsRecording ==
  /\ [][\A t \in Tabs :
          TabClosing(t) =>
            IF recordingState.isRecording /\ recordingState.currentTabId = t
            THEN /\ Len(toOff') = Len(toOff) + 1
                 /\ toOff'[Len(toOff')].action = "stopRecording"
            ELSE /\ toOff' = toOff
                 /\ UNCHANGED bgVars
                 /\ UNCHANGED offVars]_vars
  /\ [](AtRestAfterClose =>
          /\ \A s \in Sessions : rec[s].video # "recording" /\ rec[s].audio # "recording"
          /\ live = {}
          /\ AllReferencesNull
          /\ ~recordingState.isRecording
          /\ recordingState.currentTabId = 0)

\* no startTabRecording call of the offscreen recorder is suspended; its
\* stopRecording runs to its reply without suspension
NoStartOrStopMidway == \A s \in Sessions : offStart[s].pc \in {"none", "done"}

\* C26: in every state in which no start or stop handler of the offscreen
\* recorder is mid-execution, the combined encoder of a session is recording
\* if and only if its audio-only encoder is recording.
C26_EncodersInStep ==
  NoStartOrStopMidway =>
    \A s \in Sessions : (rec[s].video = "recording") <=> (rec[s].audio = "recording")

\* the step in which the offscreen recorder answers the start of session s
\* with a failure
OffscreenStartFails(s) ==
  \E m \in Range(Sent) : m.action = "response" /\ m.to = "start" /\ m.id = s /\ ~m.success

\* C27: when the offscreen start of a session fails, the step that replies
\* success=false leaves no encoder of the session recording, no track of the
\* session live, audioContext and destination null and isRecording=false;
\* once the system is at rest after starts that all failed, nothing is
\* recording, no track is live and all references are null; and no
\* recordingComplete is ever sent for a session whose start failed.
C27_FailedStartLeavesNothing ==
  /\ [][\A s \in Sessions :
          OffscreenStartFails(s) =>
            /\ rec'[s].video # "recording"
            /\ rec'[s].audio # "recording"
            /\ \A tr \in live' : tr[1] # s
            /\ off'.audioContext = 0
            /\ off'.destination = 0
            /\ ~off'.isRecording]_vars
  /\ []((AtRest /\ \A s \in Sessions : offStart[s].pc # "none" => s \in hist.startFailed) =>
          /\ \A s \in Sessions : rec[s].video # "recording" /\ rec[s].audio # "recording"
          /\ live = {}
          /\ AllReferencesNull)
  /\ [](\A s \in hist.startFailed : hist.complete[s] = 0)

\* the accumulator of artifact kind k: its list of unflushed chunks, its byte
\* counter and its list of intermediate blobs
Unflushed(k) == IF k = "video" THEN off.recordedChunks ELSE off.audioChunks
UnflushedBytes(k) == IF k = "video" THEN off.currentChunkSize ELSE off.audioChunkSize
ChunkBlobs(k) == IF k = "video" THEN off.chunkBlobs ELSE off.audioChunkBlobs

\* C28: the unflushed byte counter of each kind equals the sum of the sizes of
\* the chunks in its unflushed list and is strictly below maxChunkSize (50MB);
\* a step that hands a chunk to the accumulator appends an intermediate blob
\* of all unflushed chunks and resets the counter to 0 when the counter plus
\* the chunk's size reaches or exceeds the threshold, and otherwise only adds
\* the chunk to the unflushed list and its size to the counter; no other step
\* changes the list of intermediate blobs.
C28_CounterMatchesUnflushed ==
  /\ [](\A k \in Kinds :
          /\ UnflushedBytes(k) = BlobSize(Blob(Unflushed(k)))
          /\ UnflushedBytes(k) < maxChunkSize)
  /\ [][\A k \in Kinds :
          LET data == SubSeq(Delivered(k)', Len(Delivered(k)) + 1, Len(Delivered(k)'))
          IN IF data # <<>>
             THEN IF UnflushedBytes(k) + BlobSize(data) >= maxChunkSize
                  THEN /\ ChunkBlobs(k)' = Append(ChunkBlobs(k), Blob(Append(Unflushed(k), data)))
                       /\ Unflushed(k)' = <<>>
                       /\ UnflushedBytes(k)' = 0
                  ELSE /\ ChunkBlobs(k)' = ChunkBlobs(k)
                       /\ Unflushed(k)' = Append(Unflushed(k), data)
                       /\ UnflushedBytes(k)' = UnflushedBytes(k) + BlobSize(data)
             ELSE ChunkBlobs(k)' = ChunkBlobs(k)]_vars

\* an intermediate video blob of exactly maxChunkSize was flushed and
\* chunks have been accumulated again since
C28_Witness ==
  /\ Len(off.chunkBlobs) = 1
  /\ BlobSize(off.chunkBlobs[1]) = maxChunkSize
  /\ off.currentChunkSize > 0
  /\ off.audioChunkSize > 0

\* a step whose handler calls resetRecordingState on the state it found:
\* handleRecordingError, a failed result of the offscreen start, the end of
\* handleTabClosing
ResetStep ==
  \/ onMessage /\ Head(toBg).action = "recordingError"
  \/ \E i \in Sessions : handleStartRecordingResult(i) /\ ~Head(toBg).success
  \/ \E k \in 1..MaxCloses : handleTabClosingResult(k)

\* a step of handleStopRecording that stores the artifact of the response and
\* then calls resetRecordingState
StoreAndResetStep ==
  \E j \in 1..StopSlots : handleStopRecordingResult(j) /\ Head(toBg).success

\* C29: resetRecordingState leaves recordingData as it was when it was called
\* and sets isRecording=false, isPaused=false, recordingType=null,
\* currentTabId=null, recordingStartTime=null.
C29_ResetKeepsRecordingData ==
  [][/\ ResetStep =>
          recordingState' = [isRecording |-> FALSE, isPaused |-> FALSE,
                             recordingType |-> "null", currentTabId |-> 0,
                             recordingStartTime |-> 0,
                             recordingData |-> recordingState.recordingData]
     /\ StoreAndResetStep =>
          recordingState' = [isRecording |-> FALSE, isPaused |-> FALSE,
                             recordingType |-> "null", currentTabId |-> 0,
                             recordingStartTime |-> 0,
                             recordingData |-> Head(toBg).recordingData]]_vars

\* the first recording left an artifact, the second one ended with a
\* recordingError that has been handled: the state is reset and still holds
\* the artifact
C29_Witness ==
  /\ hist.complete[1] > 0 /\ hist.error[1] = 0
  /\ hist.error[2] > 0 /\ hist.complete[2] = 0
  /\ toBg = <<>>
  /\ broadcast.sent
  /\ recordingState.recordingData.kind = "artifact"
  /\ recordingState.recordingType = "null"
  /\ recordingState.currentTabId = 0
  /\ recordingState.recordingStartTime = 0
  /\ ~recordingState.isRecording

\* the nodes reachable from node n in the graph of context c
GraphNodes == {"tabAudioSource", "recordingGain", "passthroughGain",
               "micAudioSource", "micGain", "destination", "speakers"}
\* the nodes of S and their successors in context c of graph g
Successors(g, c, S) == S \cup {e[3] : e \in {d \in g : d[1] = c /\ d[2] \in S}}
\* a path in a graph of seven nodes has at most six connections
Reaches(g, c, from, to) ==
  to \in Successors(g, c, Successors(g, c, Successors(g, c,
          Successors(g, c, Successors(g, c, Successors(g, c, {from}))))))

\* the step in which the microphone stream of a start is granted and the start
\* is answered with success
MicrophoneAcquired(s) ==
  /\ offStart[s].pc = "getMic"
  /\ <<s, "mic">> \in live' \ live
  /\ \E m \in Range(Sent) : m.action = "response" /\ m.to = "start" /\ m.id = s /\ m.success

\* C30: in every audio context the pipeline has built with tab audio, the tab
\* audio source reaches both the mix destination and the speakers; in no
\* context does the microphone source reach the speakers; and a start that
\* acquires the microphone connects it to the mix destination of the current
\* context.
C30_MicrophoneNeverToSpeakers ==
  /\ [](\A c \in Sessions :
          /\ ctx[c] # "none" =>
                /\ Reaches(hist.graph, c, "tabAudioSource", "destination")
                /\ Reaches(hist.graph, c, "tabAudioSource", "speakers")
          /\ ~Reaches(hist.graph, c, "micAudioSource", "speakers"))
  /\ [][\A s \in Sessions :
          MicrophoneAcquired(s) =>
            /\ off.audioContext # 0
            /\ Reaches(hist'.graph, off.audioContext, "micAudioSource", "destination")]_vars

\* a recording is running on a context whose graph has the tab audio and the
\* microphone
C30_Witness ==
  \E c \in Sessions :
    /\ ctx[c] = "running"
    /\ rec[c].video = "recording"
    /\ <<c, "micGain", "destination">> \in hist.graph
    /\ <<c, "passthroughGain", "speakers">> \in hist.graph

\* the step in which the offscreen recorder answers the start of session s
\* with success
OffscreenStartSucceeds(s) ==
  \E m \in Range(Sent) : m.action = "response" /\ m.to = "start" /\ m.id = s /\ m.success

\* C31: when the start of a recording that asked for neither tab audio nor
\* microphone succeeds, no audio context and no mix destination have been
\* created for it, no connection has been made, and the combined stream holds
\* only the video track.
C31_NoAudioSkipsGraph ==
  [][\A s \in Sessions :
       (offStart[s].options \in NoAudioOptions /\ OffscreenStartSucceeds(s)) =>
          /\ off'.currentStream = MediaStream({<<s, "video">>})
          /\ ctx'[s] = "none"
          /\ off'.audioContext = 0
          /\ off'.destination = 0
          /\ <<s, "dest">> \notin live'
          /\ \A e \in hist'.graph : e[1] # s]_vars

\* call a is made, and before it call b, in the sequence calls
CallMade(calls, a) == \E k \in DOMAIN calls : calls[k] = a
CallPrecedes(calls, b, a) ==
  \A k \in DOMAIN calls : calls[k] = a => \E h \in 1..(k - 1) : calls[h] = b

\* C32: in every step in which the background's startTabRecording ends, for
\* every answer of the platform that leads to the step's outcome: a stream id
\* is requested only after the tab was retrieved, found not internal, and
\* found active or activated; the message to the offscreen recorder is sent
\* only after that and after the stream id was obtained; and when the lookup
\* or the activation fails the step replies with an error to the request,
\* requests no stream id and sends nothing to the offscreen recorder.
C32_StreamIdAfterTabChecks ==
  [][\A i \in Sessions :
       (startReq[i].pc = "tab" /\ startReq'[i].pc # "tab") =>
         LET sent == toOff' # toOff
             out == IF sent THEN "ok" ELSE reply'.error
         IN \A in \in TabInputs :
              startTabRecordingSteps(in).outcome = out =>
                LET calls == startTabRecordingSteps(in).calls
                    checked == in.get /\ ~in.internal /\ (in.active \/ in.update)
                IN /\ CallMade(calls, "tabCapture.getMediaStreamId") =>
                        /\ checked
                        /\ CallPrecedes(calls, "tabs.get", "tabCapture.getMediaStreamId")
                        /\ ~in.active =>
                              CallPrecedes(calls, "tabs.update", "tabCapture.getMediaStreamId")
                   /\ sent =>
                        /\ checked
                        /\ in.streamId = "id"
                        /\ calls[Len(calls)] = "runtime.sendMessage"
                        /\ CallPrecedes(calls, "tabCapture.getMediaStreamId", "runtime.sendMessage")
                        /\ toOff' = Append(toOff, toOff'[Len(toOff')])
                        /\ toOff'[Len(toOff')].action = "startTabRecording"
                   /\ (~in.get \/ (~in.internal /\ ~in.active /\ ~in.update)) =>
                        /\ ~sent
                        /\ ~CallMade(calls, "tabCapture.getMediaStreamId")
                        /\ reply'.to = "start"
                        /\ reply'.id = i
                        /\ ~reply'.success
                        /\ hist'.startTabSent = hist.startTabSent]_vars

\* a start request was just answered with the failed activation of its tab,
\* and nothing was ever sent to the offscreen recorder for it
C32_Witness ==
  /\ reply.to = "start"
  /\ reply.error = "switchFailed"
  /\ ~reply.success
  /\ toOff = <<>>
  /\ \E i \in Sessions : reply.id = i /\ hist.startTabSent[i] = 0

\* the step that handles the stop event of session s's combined encoder
\* (handleRecordingStop)
RecordingStopHandled(s) ==
  /\ pend # <<>>
  /\ Head(pend) = <<s, "video">>
  /\ \E d \in BOOLEAN : RecorderStopped(s, "video", d)

\* the notifications about session s that the step sends
SentAbout(s, action) == {m \in Range(Sent) : m.action = action /\ m.id = s}

\* C33: in a run without platform fault, when the stop event of a recording's
\* combined encoder is handled, a
\* recording whose combined encoder delivered at least one non-empty chunk
\* and whose audio-only encoder delivered none is reported with
\* recordingComplete, with audioUrl null and audioSize 0, and not with
\* recordingError; a recording whose combined encoder delivered no chunk is
\* reported with recordingError and not with recordingComplete.
C33_CompleteWithoutAudio ==
  [][\A s \in Sessions :
       (RecordingStopHandled(s) /\ hist.nFaults = 0) =>
         /\ (hist'.emitted[s].video > 0 /\ hist'.emitted[s].audio = 0) =>
               /\ SentAbout(s, "recordingComplete") # {}
               /\ \A m \in SentAbout(s, "recordingComplete") :
                     /\ m.recordingData.audioUrl = <<>>
                     /\ m.recordingData.audioSize = 0
                     /\ ~m.recordingData.hasAudio
               /\ SentAbout(s, "recordingError") = {}
         /\ hist'.emitted[s].video = 0 =>
               /\ SentAbout(s, "recordingError") # {}
               /\ SentAbout(s, "recordingComplete") = {}]_vars

\* the offscreen recorder is idle: it is not recording, no startTabRecording
\* call is suspended and no releaseAllStreams call is suspended at the close
\* of an audio context
OffscreenIdle ==
  /\ ~off.isRecording
  /\ \A s \in Sessions : offStart[s].pc \in {"none", "done"}
  /\ \A c \in Sessions : ctx[c] # "closing"

\* C34: in a run without platform fault, whenever the offscreen recorder is
\* not recording and neither a start nor a teardown is in progress, no track that the pipeline acquired (tab,
\* microphone, mix destination) is live and currentStream, audioOnlyStream,
\* originalTabStream, micStream, destination and audioContext are all null.
C34_IdleHoldsNothing ==
  (OffscreenIdle /\ hist.nFaults = 0) => (live = {} /\ AllReferencesNull)

\* type is the entry of the preference list types that comes first among the
\* supported ones, or default when none is supported
FirstSupportedEntry(type, types, default) ==
  IF \E i \in DOMAIN types : types[i] \in supportedTypes
  THEN \E i \in DOMAIN types :
         /\ type = types[i]
         /\ types[i] \in supportedTypes
         /\ \A h \in 1..(i - 1) : types[h] \notin supportedTypes
  ELSE type = default

\* C35: the mime types chosen for the encoders are, for each kind, the first
\* supported entry of the kind's preference list (video: webm vp9/opus, webm
\* vp8/opus, webm h264/opus, video/webm, video/mp4; audio: webm opus,
\* audio/webm, ogg opus, audio/mp4, audio/wav), and video/webm respectively
\* audio/webm when no entry is supported; they depend on nothing else: once
\* chosen they never change while the supported set stays the same.
C35_FirstSupportedMimeType ==
  /\ [](off.mimeType # "none" =>
          /\ FirstSupportedEntry(off.mimeType,
                <<"video/webm;codecs=vp9,opus", "video/webm;codecs=vp8,opus",
                  "video/webm;codecs=h264,opus", "video/webm", "video/mp4">>, "video/webm")
          /\ FirstSupportedEntry(off.audioMimeType,
                <<"audio/webm;codecs=opus", "audio/webm", "audio/ogg;codecs=opus",
                  "audio/mp4", "audio/wav">>, "audio/webm"))
  /\ [][off.mimeType # "none" =>
          (off'.mimeType = off.mimeType /\ off'.audioMimeType = off.audioMimeType)]_vars

\* the runtime supports only the last video entry and only ogg and wav for
\* audio, and the encoders' types have been chosen
C35_Witness ==
  /\ supportedTypes = {"video/mp4", "audio/ogg;codecs=opus", "audio/wav"}
  /\ off.mimeType = "video/mp4"
  /\ off.audioMimeType = "audio/ogg;codecs=opus"

\* a callback of session s that was left pending runs in this step: the
\* releaseAllStreams call suspended at the close of s's audio context resumes,
\* or the task queued by the stop of one of s's encoders (final dataavailable
\* and stop event) runs
StaleCallbackRuns(s) ==
  \/ ctx[s] = "closing" /\ ctx'[s] = "closed"
  \/ /\ pend # <<>>
     /\ Head(pend)[1] = s
     /\ pend' = <<>> \/ Head(pend') # Head(pend)

\* startTabRecording of session t has begun and t has not been stopped
SessionBegun(t) ==
  \/ offStart[t].pc \in {"getTab", "getMic"}
  \/ off.isRecording /\ off.mediaRecorder = t /\ rec[t].video = "recording"

\* the chunks of session t held in the buffers of recorder state o
ChunksHeld(o, t) ==
  {c \in Chunks(Blob(o.recordedChunks)) \cup Chunks(Blob(o.audioChunks))
          \cup Chunks(Blob(o.chunkBlobs)) \cup Chunks(Blob(o.audioChunkBlobs)) : c.s = t}

StreamsAndContextKept(t) ==
  /\ off'.currentStream = off.currentStream
  /\ off'.audioOnlyStream = off.audioOnlyStream
  /\ off'.originalTabStream = off.originalTabStream
  /\ off'.micStream = off.micStream
  /\ off'.destination = off.destination
  /\ off'.audioContext = off.audioContext
  /\ {x \in live : x[1] = t} \subseteq live'
  /\ ctx'[t] = ctx[t]
  /\ rec'[t] = rec[t]

ChunkBuffersKept(t) ==
  /\ ChunksHeld(off, t) \subseteq ChunksHeld(off', t)
  /\ hist'.final # hist.final =>
       \A c \in Chunks(hist'.final.video) \cup Chunks(hist'.final.audio) : c.s # t

\* C36: a callback of a finished or failed session s (its releaseAllStreams
\* call resuming after the close of the audio context, or the queued final
\* dataavailable and stop event of one of its encoders) that runs after the
\* startTabRecording of another session t has begun leaves t alone: it does
\* not null or stop t's streams and context, does not clear or consume t's
\* chunk buffers, and does not reset isRecording or the start time.
C36_StaleCallbacksLeaveNewSession ==
  [][\A s, t \in Sessions :
       (s # t /\ StaleCallbackRuns(s) /\ SessionBegun(t) /\ hist.nFaults = 0) =>
         /\ StreamsAndContextKept(t)
         /\ ChunkBuffersKept(t)
         /\ off'.isRecording = off.isRecording
         /\ off'.recordingStartTime = off.recordingStartTime]_vars

\* C37: in every reachable state with no message in flight and no handler
\* mid-execution (AtRest), recordingState.isRecording of the background is true
\* if and only if isRecording of the offscreen recorder is true.
C37_BackgroundAgreesWithPipeline ==
  AtRest => (recordingState.isRecording <=> off.isRecording)

\* the store gives no authentication at time now: a token is missing, the
\* auth token is malformed, or it has expired
Unauthenticated(store, now) ==
  \/ store.auth_token = "absent"
  \/ ~store.refresh_token
  \/ store.auth_token \in {"garbage", "noExp"}
  \/ store.exp * 1000 < now

\* the step ends the checks of request i
ChecksEnd(i) == startReq[i].pc = "auth" /\ startReq'[i].pc # "auth"

RejectedByChecks(i) ==
  /\ reply'.to = "start" /\ reply'.id = i /\ ~reply'.success
  /\ reply'.error \in {"AuthRequired", "NoTab"}

\* C38: a startRecording request whose checks end while the user is not
\* authenticated (no tokens, malformed token or expired token) or whose
\* options carry no tabId is rejected with an error reply, without creating the
\* offscreen document, changing recordingState or requesting a stream id.
C38_UnauthenticatedStartRejected ==
  [][\A i \in Sessions : ChecksEnd(i) =>
       /\ \A store \in AuthStores, created \in BOOLEAN :
            (Unauthenticated(store, Epoch + clock) \/ startReq[i].options.tabId = 0) =>
               LET r == handleStartRecordingSteps(store, startReq[i].options, Epoch + clock, created)
               IN /\ r.outcome \in {"AuthRequired", "NoTab"}
                  /\ \A n \in DOMAIN r.calls : r.calls[n] # "createOffscreenDocument"
       /\ startReq[i].options.tabId = 0 => RejectedByChecks(i)
       /\ RejectedByChecks(i) =>
            /\ recordingState' = recordingState
            /\ toOff' = toOff
            /\ hist'.startTabSent = hist.startTabSent
            /\ startReq'[i] = Idle]_vars

\* a request without tabId was rejected by the checks
C38_Witness ==
  /\ reply.to = "start" /\ ~reply.success /\ reply.error = "NoTab"
  /\ \E i \in Sessions : reply.id = i /\ startReq[i] = Idle

\* C39: in every reachable state, recordingState.isRecording = true in the
\* background implies that currentTabId and recordingStartTime are non-null,
\* and isPaused is false in the background and in the offscreen recorder.
C39_RecordingHasTabAndStartTime ==
  hist.nFaults = 0 =>
    /\ recordingState.isRecording =>
         (recordingState.currentTabId # 0 /\ recordingState.recordingStartTime # 0)
    /\ ~recordingState.isPaused
    /\ ~off.isPaused

\* C40: at most one token-refresh timer is pending at any time: a new timer is
\* never armed while an earlier armed timer is still pending and uncancelled,
\* and after tokensCleared or logoutComplete was handled no timer is pending.
C40_OneRefreshTimer ==
  /\ [](Cardinality(auth.timers) <= 1)
  /\ [][auth'.timers \ auth.timers # {} => auth.timers = {}]_vars
  /\ [](auth.last \in {"tokensCleared", "logoutComplete"} => auth.timers = {})
====
